---- MODULE Spec2Model ----
(***************************************************************************)
(* Request-execution core of the AI client (AIClient in                    *)
(* src/src/prompts/presets.ts, helpers in src/src/providers/gemini.ts,     *)
(* error classes in src/src/errors.ts): construction, hook registries,     *)
(* the retry loop, the timeout guard and the error classification.         *)
(***************************************************************************)
EXTENDS Integers, Sequences, FiniteSets, TLC

VARIABLES
    pc,             \* position of the client / of the one non-streaming call
    config,         \* this.config after the constructor
    requestHooks,   \* this.requestHooks
    responseHooks,  \* this.responseHooks
    errorHooks,     \* this.errorHooks
    attempt,        \* loop variable of executeWithRetry (0-based)
    lastError,      \* lastError of executeWithRetry
    attempts,       \* one record per executeWithTimeout invocation
    trace,          \* observable events of the call, in order
    outcome,        \* what the caller of the call receives
    clsError,       \* argument of isRetryableError (classification check)
    clsResult,      \* its result
    providerObj,    \* this.provider
    source,         \* the async iterable provider.chatStream returned
    delivered,      \* chunks the consumer of client.chatStream received
    fnInput,        \* argument of the function under check
    fnOutput,       \* its result
    clock,          \* the time, and when each attempt started and settled
    calls           \* the non-streaming calls issued side by side on the client

vars == <<pc, config, requestHooks, responseHooks, errorHooks, attempt,
          lastError, attempts, trace, outcome, clsError, clsResult,
          providerObj, source, delivered, fnInput, fnOutput, clock, calls>>

callVars == <<pc, config, requestHooks, responseHooks, errorHooks, attempt,
              lastError, attempts, trace, outcome>>

clsVars == <<clsError, clsResult>>

streamVars == <<source, delivered>>

fnVars == <<fnInput, fnOutput>>

\* what the non-streaming call leaves alone
otherVars == <<clsVars, streamVars, fnVars, clock, calls>>

(***************************************************************************)
(* Bounds of the model.                                                    *)
(***************************************************************************)
\* total number of hooks registered on the client
MaxHooks == 2
\* chunks a provider stream yields at most
MaxChunks == 3
\* '|'-separated parts of a response text to classifySentiment
MaxParts == 3
\* lines of a response text to summarizeToBullets
MaxLines == 4
\* milliseconds the clock of the timed runs counts up to
MaxTime == 8
\* calls issued side by side on one client
MaxCalls == 2
\* largest maxRetries value a caller passes explicitly
MaxRetriesCfg == 2

(***************************************************************************)
(* JavaScript values.                                                      *)
(***************************************************************************)
\* an optional number or string: <<>> is undefined, <<v>> is v
None == <<>>
Some(v) == <<v>>

\* a field of the caller's configuration object
Omitted == [tag |-> "omitted"]
Undefined == [tag |-> "undefined"]
Val(v) == [tag |-> "value", v |-> v]

\* (x || d) for a numeric field x: undefined and 0 are falsy
OrDefault(field, d) ==
    IF field.tag = "value" /\ field.v # 0 THEN field.v ELSE d

\* Math.pow(2, n) for n >= 0
RECURSIVE Pow2(_)
Pow2(n) == IF n <= 0 THEN 1 ELSE 2 * Pow2(n - 1)

(***************************************************************************)
(* Error objects (src/src/errors.ts and provider errors).                  *)
(***************************************************************************)
NoError == [name |-> "none"]

\* an error raised by provider.chat in attempt a: its own fields come from the backend
ProviderError(a, status, code) ==
    [name |-> "Error", id |-> a, status |-> status, statusCode |-> None,
     respStatus |-> None, code |-> code, provider |-> None]

TimeoutError(provider) ==
    [name |-> "TimeoutError", status |-> None, statusCode |-> None,
     respStatus |-> None, code |-> None, provider |-> Some(provider)]

RetryError(retries, provider, originalError) ==
    [name |-> "RetryError", status |-> None, statusCode |-> None,
     respStatus |-> None, code |-> None, provider |-> Some(provider),
     retries |-> retries, originalError |-> originalError]

AIClientError(message) ==
    [name |-> "AIClientError", message |-> message, status |-> None,
     statusCode |-> None, respStatus |-> None, code |-> None, provider |-> None]

(***************************************************************************)
(* isRetryableError (utils).                                               *)
(***************************************************************************)
\* error.status || error.statusCode || error.response?.status
FirstTruthy(a, b, c) ==
    IF a # None /\ a[1] # 0 THEN a
    ELSE IF b # None /\ b[1] # 0 THEN b
    ELSE c

\* variant that treats a timeout as a transient failure
isRetryableErrorOrTimeout(error) ==
    IF error.name = "null" THEN FALSE
    ELSE IF error.name = "TimeoutError" THEN TRUE
    ELSE LET statusCode == FirstTruthy(error.status, error.statusCode, error.respStatus)
         IN  IF statusCode # None /\ statusCode[1] # 0
             THEN statusCode[1] = 429 \/ (statusCode[1] >= 500 /\ statusCode[1] < 600)
             ELSE error.code \in {Some("ECONNRESET"), Some("ETIMEDOUT"), Some("ENOTFOUND")}

isRetryableError(error) ==
    IF error.name = "null" THEN FALSE
    ELSE LET statusCode == FirstTruthy(error.status, error.statusCode, error.respStatus)
         IN  IF statusCode # None /\ statusCode[1] # 0
             THEN statusCode[1] = 429 \/ (statusCode[1] >= 500 /\ statusCode[1] < 600)
             ELSE error.code \in {Some("ECONNRESET"), Some("ETIMEDOUT"), Some("ENOTFOUND")}

(***************************************************************************)
(* Construction (AIClient.constructor).                                    *)
(***************************************************************************)
\* temperatures are counted in tenths: 7 is 0.7
DefaultTemperature == 7
DefaultMaxRetries == 3
DefaultRetryDelay == 1000
DefaultTimeout == 30000
FallbackMaxRetries == 3
FallbackRetryDelay == 1000
FallbackTimeout == 30000

ProviderNames == {"openai", "gemini"}

\* { default, ...config }: a key the caller gives, even as undefined, wins
Spread(d, field) == IF field = Omitted THEN Val(d) ELSE field

DefaultModel(provider) ==
    IF provider = "openai" THEN "gpt-4o-mini"
    ELSE IF provider = "gemini" THEN "gemini-pro"
    ELSE ""

NoConfig == [tag |-> "none"]

\* variant of the constructor that never reaches its unsupported-provider branch
ConstructorChecksKeyOnly(c) == c.apiKey = ""

ConstructorThrows(c) == c.apiKey = "" \/ c.provider \notin ProviderNames

ConstructorError(c) ==
    IF c.apiKey = "" THEN AIClientError("API key is required")
    ELSE AIClientError("Unsupported provider")

\* variant that sets the default only when no model is given (?? for !)
ModelOfWhenNullish(c) ==
    IF c.model.tag = "value" THEN c.model.v
    ELSE DefaultModel(c.provider)

\* if (!this.config.model) this.config.model = <default of the provider>
ModelOf(c) ==
    IF c.model.tag = "value" /\ c.model.v # "" THEN c.model.v
    ELSE DefaultModel(c.provider)

ConstructedConfig(c) ==
    [provider |-> c.provider,
     apiKey |-> c.apiKey,
     model |-> ModelOf(c),
     temperature |-> Spread(DefaultTemperature, c.temperature),
     maxRetries |-> Spread(DefaultMaxRetries, c.maxRetries),
     retryDelay |-> Spread(DefaultRetryDelay, c.retryDelay),
     timeout |-> Spread(DefaultTimeout, c.timeout)]

\* the configurations a caller passes to the constructor before a call
\* (model, temperature and timeout left out)
ConfigInputs ==
    [provider : {"openai", "gemini", "other"},
     apiKey : {"", "key"},
     model : {Omitted},
     temperature : {Omitted},
     maxRetries : {Omitted, Undefined} \cup {Val(n) : n \in -1 .. MaxRetriesCfg},
     retryDelay : {Omitted, Val(0), Val(250)},
     timeout : {Omitted}]

\* an optional numeric field as a caller or parseEnvConfig passes it
NumberField(values) == {Omitted, Undefined} \cup {Val(n) : n \in values}

\* the configurations the constructor is applied to when it is checked alone
AllConfigInputs ==
    [provider : {"openai", "gemini", "other"},
     apiKey : {"", "key"},
     model : {Omitted, Undefined, Val(""), Val("custom-model")},
     temperature : NumberField({0, 2}),
     maxRetries : NumberField({0, 5}),
     retryDelay : NumberField({0, 250}),
     timeout : NumberField({0, 5000})]

\* temperature: this.config.temperature, as summarize passes it to the provider
EffTemperature(cfg) == cfg.temperature

\* const timeout = this.config.timeout || 30000
EffTimeout(cfg) == OrDefault(cfg.timeout, FallbackTimeout)

\* this.config.retryDelay || 1000
EffRetryDelay(cfg) == OrDefault(cfg.retryDelay, FallbackRetryDelay)

\* const maxRetries = this.config.maxRetries || 3
EffMaxRetries(cfg) == OrDefault(cfg.maxRetries, FallbackMaxRetries)

\* variant whose delay grows with the provider calls of the client that have not
\* settled yet (abandoned by their guards)
BackoffDelayUnderLoad(cfg, a) ==
    OrDefault(cfg.retryDelay, FallbackRetryDelay)
        * Pow2(a + Cardinality({k \in 1 .. Len(attempts) : attempts[k].work = "running"}))

\* (this.config.retryDelay || 1000) * Math.pow(2, attempt)
BackoffDelay(cfg, a) == OrDefault(cfg.retryDelay, FallbackRetryDelay) * Pow2(a)

(***************************************************************************)
(* Hooks: a hook is a function value; what matters of it is whether it     *)
(* throws.  Dispatch is the for-loop with its try/catch around each call.  *)
(***************************************************************************)
Hooks == [throws : BOOLEAN]

\* try { hook(this.config, input) } catch (error) { }: does the exception escape?
RequestHookErrorEscapes(h) == FALSE

\* variant without the try/catch around a response hook
ResponseHookErrorPropagates(h) == h.throws

\* try { hook(result) } catch (error) { }
ResponseHookErrorEscapes(h) == FALSE

\* variant without the try/catch around an error hook
ErrorHookErrorPropagates(h) == h.throws

\* try { hook(error) } catch (hookError) { }
ErrorHookErrorEscapes(h) == FALSE

HookErrorEscapes(kind, h) ==
    IF kind = "request" THEN RequestHookErrorEscapes(h)
    ELSE IF kind = "response" THEN ResponseHookErrorEscapes(h)
    ELSE ErrorHookErrorEscapes(h)

Event(ev, idx, arg) == [ev |-> ev, idx |-> idx, arg |-> arg]

\* variant that walks the registry from its last hook to its first
RECURSIVE DispatchReversed(_, _, _, _)
DispatchReversed(kind, hooks, arg, i) ==
    IF i > Len(hooks) THEN [events |-> <<>>, escaped |-> FALSE]
    ELSE LET j == Len(hooks) + 1 - i
             rest == DispatchReversed(kind, hooks, arg, i + 1)
         IN  [events |-> <<Event(kind, j, arg)>> \o rest.events,
              escaped |-> rest.escaped]

\* for (const hook of hooks) { try { hook(arg) } catch { } }, from the i-th hook on:
\* the invocations made, and whether a hook's exception left the loop
RECURSIVE DispatchFrom(_, _, _, _)
DispatchFrom(kind, hooks, arg, i) ==
    IF i > Len(hooks) THEN [events |-> <<>>, escaped |-> FALSE]
    ELSE IF HookErrorEscapes(kind, hooks[i])
         THEN [events |-> <<Event(kind, i, arg)>>, escaped |-> TRUE]
         ELSE LET rest == DispatchFrom(kind, hooks, arg, i + 1)
              IN  [events |-> <<Event(kind, i, arg)>> \o rest.events,
                   escaped |-> rest.escaped]

HookError == [name |-> "HookError", status |-> None, statusCode |-> None,
              respStatus |-> None, code |-> None, provider |-> None]

TotalHooks == Len(requestHooks) + Len(responseHooks) + Len(errorHooks)

(***************************************************************************)
(* The timeout guard (AIClient.executeWithTimeout): a promise raced by the *)
(* work and by a timer.                                                    *)
(***************************************************************************)
PendingGuard == [state |-> "pending", value |-> NoError]

\* variant in which a later resolve / reject replaces the settled value
SettleLastWins(guard, state, value) == [state |-> state, value |-> value]

\* resolve(v) / reject(e) of a promise: only the first settlement counts
Settle(guard, state, value) ==
    IF guard.state = "pending" THEN [state |-> state, value |-> value] ELSE guard

\* clearTimeout(timer)
ClearTimeout(timer) == IF timer = "armed" THEN "cleared" ELSE timer

\* variant of executeWithTimeout that arms no timer
NewAttemptWithoutTimer ==
    [work |-> "running", workValue |-> NoError, timer |-> "cleared",
     guard |-> PendingGuard]

\* executeWithTimeout up to its await: the timer is armed, fn() is invoked
NewAttempt ==
    [work |-> "running", workValue |-> NoError, timer |-> "armed",
     guard |-> PendingGuard]

\* the work of attempt record r settles with (state, value): lines 232-238
WorkSettled(r, state, value) ==
    [work |-> state,
     workValue |-> value,
     timer |-> ClearTimeout(r.timer),
     guard |-> Settle(r.guard, state, value)]

\* the timer callback of attempt record r runs: lines 227-229
TimerFired(r, provider) ==
    [work |-> r.work,
     workValue |-> r.workValue,
     timer |-> "fired",
     guard |-> Settle(r.guard, "rejected", TimeoutError(provider))]

(***************************************************************************)
(* What the provider can answer.                                           *)
(***************************************************************************)
\* ChatResult as provider.chat returns it: a bare one, and one with every
\* optional field set, a provider tag of the provider's own included
ProviderResults ==
    {[content |-> "text", model |-> None, tokensUsed |-> None,
      finishReason |-> None, provider |-> None],
     [content |-> "text", model |-> Some("backend-model"), tokensUsed |-> Some(42),
      finishReason |-> Some("stop"), provider |-> Some("backend")]}

\* status and code of the errors provider.chat raises: a server error, a client
\* error, a network error
FailureShapes ==
    {[status |-> Some(503), code |-> None],
     [status |-> Some(400), code |-> None],
     [status |-> None, code |-> Some("ECONNRESET")]}

(***************************************************************************)
(* The retry loop (AIClient.executeWithRetry) and callProvider.            *)
(***************************************************************************)
NoOutcome == [kind |-> "none"]
Returned(v) == [kind |-> "returned", value |-> v]
Thrown(e) == [kind |-> "thrown", value |-> e]

\* variant of the catch block whose retry test is off by one (attempt + 1 < maxRetries)
CatchAttemptErrorOffByOne(cfg, hooks, a, error) ==
    LET maxRetries == EffMaxRetries(cfg)
        d == DispatchFrom("error", hooks, error, 1)
    IN  IF a + 1 < maxRetries /\ isRetryableError(error)
        THEN [pc |-> "sleeping",
              events |-> d.events \o <<Event("sleep", a, BackoffDelay(cfg, a))>>,
              outcome |-> NoOutcome]
        ELSE IF a = maxRetries
        THEN [pc |-> "thrown", events |-> d.events,
              outcome |-> Thrown(RetryError(maxRetries, cfg.provider, error))]
        ELSE [pc |-> "thrown", events |-> d.events, outcome |-> Thrown(error)]

\* variant of the catch block that calls the error hooks only when the call gives up
CatchAttemptErrorHooksOnGiveUp(cfg, hooks, a, error) ==
    LET maxRetries == EffMaxRetries(cfg)
        d == DispatchFrom("error", hooks, error, 1)
    IN  IF a < maxRetries /\ isRetryableError(error)
        THEN [pc |-> "sleeping",
              events |-> <<Event("sleep", a, BackoffDelay(cfg, a))>>,
              outcome |-> NoOutcome]
        ELSE IF a = maxRetries
        THEN [pc |-> "thrown", events |-> d.events,
              outcome |-> Thrown(RetryError(maxRetries, cfg.provider, error))]
        ELSE [pc |-> "thrown", events |-> d.events, outcome |-> Thrown(error)]

\* variant of the catch block that gives up silently, returning no result
CatchAttemptErrorSwallowed(cfg, hooks, a, error) ==
    LET maxRetries == EffMaxRetries(cfg)
        d == DispatchFrom("error", hooks, error, 1)
    IN  IF a < maxRetries /\ isRetryableError(error)
        THEN [pc |-> "sleeping",
              events |-> d.events \o <<Event("sleep", a, BackoffDelay(cfg, a))>>,
              outcome |-> NoOutcome]
        ELSE [pc |-> "returned", events |-> d.events, outcome |-> Returned(None)]

\* variant of the catch block that retries every failure while retries remain
CatchAttemptErrorRetriesAny(cfg, hooks, a, error) ==
    LET maxRetries == EffMaxRetries(cfg)
        d == DispatchFrom("error", hooks, error, 1)
    IN  IF a < maxRetries
        THEN [pc |-> "sleeping",
              events |-> d.events \o <<Event("sleep", a, BackoffDelay(cfg, a))>>,
              outcome |-> NoOutcome]
        ELSE [pc |-> "thrown", events |-> d.events,
              outcome |-> Thrown(RetryError(maxRetries, cfg.provider, error))]

\* the catch block of the loop for the error of attempt a: lines 187-217
CatchAttemptError(cfg, hooks, a, error) ==
    LET maxRetries == EffMaxRetries(cfg)
        d == DispatchFrom("error", hooks, error, 1)
    IN  IF d.escaped
        THEN [pc |-> "thrown", events |-> d.events, outcome |-> Thrown(HookError)]
        ELSE IF a < maxRetries /\ isRetryableError(error)
        THEN [pc |-> "sleeping",
              events |-> d.events \o <<Event("sleep", a, BackoffDelay(cfg, a))>>,
              outcome |-> NoOutcome]
        ELSE IF a = maxRetries
        THEN [pc |-> "thrown", events |-> d.events,
              outcome |-> Thrown(RetryError(maxRetries, cfg.provider, error))]
        ELSE [pc |-> "thrown", events |-> d.events, outcome |-> Thrown(error)]

\* variant that spreads the raw result over the client's tag
DecorateRawWins(cfg, result) ==
    [result EXCEPT !.provider = IF @ # None THEN @ ELSE Some(cfg.provider),
                   !.model = IF @ # None /\ @ # Some("") THEN @ ELSE Some(cfg.model)]

\* return { ...result, provider, model: result.model || this.config.model }
Decorate(cfg, result) ==
    [result EXCEPT !.provider = Some(cfg.provider),
                   !.model = IF @ # None /\ @ # Some("") THEN @ ELSE Some(cfg.model)]

\* callProvider after executeWithRetry returned result: lines 257-270
AfterSuccess(cfg, hooks, result) ==
    LET d == DispatchFrom("response", hooks, result, 1)
    IN  IF d.escaped
        THEN [pc |-> "thrown", events |-> d.events, outcome |-> Thrown(HookError)]
        ELSE [pc |-> "returned", events |-> d.events,
              outcome |-> Returned(Decorate(cfg, result))]

\* the loop resumes with the settled guard of attempt a: lines 185-217
AfterGuard(cfg, rHooks, eHooks, a, guard) ==
    IF guard.state = "resolved"
    THEN AfterSuccess(cfg, rHooks, guard.value)
    ELSE CatchAttemptError(cfg, eHooks, a, guard.value)

(***************************************************************************)
(* Initial state and the operations of the client.                         *)
(***************************************************************************)
NullError == [name |-> "null"]

ClsIdle ==
    /\ clsError = NullError
    /\ clsResult = None

\* this.provider before the constructor assigned it
NoProvider == [name |-> "none"]

\* new OpenAIProvider(...) / new GeminiProvider(...): both classes define chatStream
ProviderObject(name) == [name |-> name, chatStream |-> "own"]

NoSource == [tag |-> "none"]

StreamIdle ==
    /\ source = NoSource
    /\ delivered = <<>>

\* no time is kept
NoClock == [now |-> 0, armedAt |-> <<>>, settledAt |-> <<>>]

ClockIdle == clock = NoClock

\* no call has been issued side by side with another
NoCalls == <<>>

CallsIdle == calls = NoCalls

FnIdle ==
    /\ fnInput = None
    /\ fnOutput = None

Init ==
    /\ pc = "new"
    /\ config = NoConfig
    /\ requestHooks = <<>>
    /\ responseHooks = <<>>
    /\ errorHooks = <<>>
    /\ attempt = 0
    /\ lastError = NoError
    /\ attempts = <<>>
    /\ trace = <<>>
    /\ outcome = NoOutcome
    /\ providerObj = NoProvider
    /\ ClsIdle
    /\ StreamIdle
    /\ ClockIdle
    /\ CallsIdle
    /\ FnIdle

\* new AIClient(c)
Construct(c) ==
    /\ pc = "new"
    /\ IF ConstructorThrows(c)
       THEN /\ pc' = "ctorFailed"
            /\ outcome' = Thrown(ConstructorError(c))
            /\ config' = config
            /\ providerObj' = providerObj
       ELSE /\ pc' = "idle"
            /\ outcome' = outcome
            /\ config' = ConstructedConfig(c)
            /\ providerObj' = ProviderObject(c.provider)
    /\ UNCHANGED <<requestHooks, responseHooks, errorHooks, attempt, lastError,
                   attempts, trace, otherVars>>

\* client.onRequest(h), before the call is issued
onRequest(h) ==
    /\ pc = "idle"
    /\ TotalHooks < MaxHooks
    /\ requestHooks' = Append(requestHooks, h)
    /\ UNCHANGED <<pc, config, responseHooks, errorHooks, attempt, lastError,
                   attempts, trace, outcome, providerObj, otherVars>>

\* client.onResponse(h)
onResponse(h) ==
    /\ pc = "idle"
    /\ TotalHooks < MaxHooks
    /\ responseHooks' = Append(responseHooks, h)
    /\ UNCHANGED <<pc, config, requestHooks, errorHooks, attempt, lastError,
                   attempts, trace, outcome, providerObj, otherVars>>

\* variant that puts the hook at the front of the registry (unshift for push)
onErrorUnshift(h) ==
    /\ pc = "idle"
    /\ TotalHooks < MaxHooks
    /\ errorHooks' = <<h>> \o errorHooks
    /\ UNCHANGED <<pc, config, requestHooks, responseHooks, attempt, lastError,
                   attempts, trace, outcome, providerObj, otherVars>>

\* client.onError(h)
onError(h) ==
    /\ pc = "idle"
    /\ TotalHooks < MaxHooks
    /\ errorHooks' = Append(errorHooks, h)
    /\ UNCHANGED <<pc, config, requestHooks, responseHooks, attempt, lastError,
                   attempts, trace, outcome, providerObj, otherVars>>

\* callProvider(input) up to the first await: request hooks, then
\* executeWithRetry enters its loop and executeWithTimeout invokes the provider
callProvider ==
    /\ pc = "idle"
    /\ LET d == DispatchFrom("request", requestHooks, config, 1)
       IN  IF d.escaped
           THEN /\ pc' = "thrown"
                /\ outcome' = Thrown(HookError)
                /\ trace' = trace \o d.events
                /\ attempts' = attempts
           ELSE IF 0 <= EffMaxRetries(config)
           THEN /\ pc' = "inflight"
                /\ outcome' = outcome
                /\ trace' = trace \o d.events \o <<Event("attempt", 0, None)>>
                /\ attempts' = Append(attempts, NewAttempt)
           ELSE \* the loop body never runs: throw lastError || new AIClientError(...)
                /\ pc' = "thrown"
                /\ outcome' = Thrown(AIClientError("Failed to execute chat"))
                /\ trace' = trace \o d.events
                /\ attempts' = attempts
    /\ attempt' = 0
    /\ UNCHANGED <<config, requestHooks, responseHooks, errorHooks, lastError, providerObj, otherVars>>

\* variant in which the request hooks are dispatched again for every retry
ResumeRedispatchingRequests(r) ==
    LET n == AfterGuard(config, responseHooks, errorHooks, attempt, r.guard)
        again == IF n.pc = "sleeping"
                 THEN DispatchFrom("request", requestHooks, config, 1).events
                 ELSE <<>>
    IN  /\ attempts' = [attempts EXCEPT ![Len(attempts)] = r]
        /\ pc' = n.pc
        /\ outcome' = n.outcome
        /\ trace' = trace \o n.events \o again
        /\ lastError' = IF r.guard.state = "rejected" THEN r.guard.value ELSE lastError
        /\ UNCHANGED <<config, requestHooks, responseHooks, errorHooks, attempt,
                       providerObj, otherVars>>

\* the guard of the current attempt settles and the loop resumes
Resume(r) ==
    LET n == AfterGuard(config, responseHooks, errorHooks, attempt, r.guard)
    IN  /\ attempts' = [attempts EXCEPT ![Len(attempts)] = r]
        /\ pc' = n.pc
        /\ outcome' = n.outcome
        /\ trace' = trace \o n.events
        /\ lastError' = IF r.guard.state = "rejected" THEN r.guard.value ELSE lastError
        /\ UNCHANGED <<config, requestHooks, responseHooks, errorHooks, attempt, providerObj, otherVars>>

\* provider.chat(input) fulfils before the deadline
WorkResolves(result) ==
    /\ pc = "inflight"
    /\ Resume(WorkSettled(attempts[Len(attempts)], "resolved", result))

\* provider.chat(input) rejects before the deadline
WorkRejects(f) ==
    /\ pc = "inflight"
    /\ Resume(WorkSettled(attempts[Len(attempts)], "rejected",
                          ProviderError(attempt, f.status, f.code)))

\* the deadline of the current attempt elapses first
TimerFires ==
    /\ pc = "inflight"
    /\ attempts[Len(attempts)].timer = "armed"
    /\ Resume(TimerFired(attempts[Len(attempts)], config.provider))

\* the provider call of attempt k, abandoned by its guard, settles later
AbandonedWorkSettles(k, state, value) ==
    /\ attempts[k].work = "running"
    /\ attempts[k].guard.state # "pending"
    /\ attempts' = [attempts EXCEPT ![k] = WorkSettled(attempts[k], state, value)]
    /\ UNCHANGED <<pc, config, requestHooks, responseHooks, errorHooks, attempt,
                   lastError, trace, outcome, providerObj, otherVars>>

AbandonedWorkResolves(result) ==
    \E k \in 1 .. Len(attempts) : AbandonedWorkSettles(k, "resolved", result)

AbandonedWorkRejects(f) ==
    \E k \in 1 .. Len(attempts) :
        AbandonedWorkSettles(k, "rejected", ProviderError(k - 1, f.status, f.code))

\* await sleep(delay) ends: continue, attempt++, loop test, next executeWithTimeout
BackoffElapses ==
    /\ pc = "sleeping"
    /\ attempt' = attempt + 1
    /\ IF attempt + 1 <= EffMaxRetries(config)
       THEN /\ pc' = "inflight"
            /\ outcome' = outcome
            /\ trace' = Append(trace, Event("attempt", attempt + 1, None))
            /\ attempts' = Append(attempts, NewAttempt)
       ELSE /\ pc' = "thrown"
            /\ outcome' = Thrown(lastError)
            /\ trace' = trace
            /\ attempts' = attempts
    /\ UNCHANGED <<config, requestHooks, responseHooks, errorHooks, lastError, providerObj, otherVars>>

Next ==
    \/ \E c \in ConfigInputs : Construct(c)
    \/ \E h \in Hooks : onRequest(h)
    \/ \E h \in Hooks : onResponse(h)
    \/ \E h \in Hooks : onError(h)
    \/ callProvider
    \/ \E r \in ProviderResults : WorkResolves(r)
    \/ \E f \in FailureShapes : WorkRejects(f)
    \/ TimerFires
    \/ \E r \in ProviderResults : AbandonedWorkResolves(r)
    \/ \E f \in FailureShapes : AbandonedWorkRejects(f)
    \/ BackoffElapses

Spec == Init /\ [][Next]_vars

(***************************************************************************)
(* isRetryableError applied to every error shape of a bounded set.         *)
(***************************************************************************)
ClsStatuses == {None, Some(0), Some(400), Some(429), Some(500), Some(599), Some(600)}

ClsCodes ==
    {None, Some("ECONNRESET"), Some("ETIMEDOUT"), Some("ENOTFOUND"), Some("EPIPE")}

ClsErrors ==
    {NullError}
    \cup {TimeoutError(p) : p \in ProviderNames}
    \cup {[name |-> "Error", status |-> s, statusCode |-> sc, respStatus |-> rs,
           code |-> c, provider |-> None] :
             s \in ClsStatuses, sc \in ClsStatuses, rs \in ClsStatuses, c \in ClsCodes}

InitClassify ==
    /\ pc = "new"
    /\ config = NoConfig
    /\ requestHooks = <<>>
    /\ responseHooks = <<>>
    /\ errorHooks = <<>>
    /\ attempt = 0
    /\ lastError = NoError
    /\ attempts = <<>>
    /\ trace = <<>>
    /\ outcome = NoOutcome
    /\ providerObj = NoProvider
    /\ clsError \in ClsErrors
    /\ clsResult = None
    /\ StreamIdle
    /\ ClockIdle
    /\ CallsIdle
    /\ FnIdle

Classify ==
    /\ clsResult = None
    /\ clsResult' = Some(isRetryableError(clsError))
    /\ UNCHANGED <<callVars, clsError, providerObj, streamVars, fnVars, clock, calls>>

SpecClassify == InitClassify /\ [][Classify]_vars

(***************************************************************************)
(* The constructor applied to every configuration of a bounded set.        *)
(***************************************************************************)
InitConfig ==
    /\ pc = "new"
    /\ config = NoConfig
    /\ requestHooks = <<>>
    /\ responseHooks = <<>>
    /\ errorHooks = <<>>
    /\ attempt = 0
    /\ lastError = NoError
    /\ attempts = <<>>
    /\ trace = <<>>
    /\ outcome = NoOutcome
    /\ providerObj = NoProvider
    /\ ClsIdle
    /\ StreamIdle
    /\ ClockIdle
    /\ CallsIdle
    /\ fnInput \in AllConfigInputs
    /\ fnOutput = None

\* new AIClient(fnInput)
ConstructFrom ==
    /\ pc = "new"
    /\ fnOutput = None
    /\ IF ConstructorThrows(fnInput)
       THEN /\ pc' = "ctorFailed"
            /\ fnOutput' = Some(Thrown(ConstructorError(fnInput)))
            /\ config' = config
            /\ providerObj' = providerObj
       ELSE /\ pc' = "idle"
            /\ fnOutput' = Some(Returned(ConstructedConfig(fnInput)))
            /\ config' = ConstructedConfig(fnInput)
            /\ providerObj' = ProviderObject(fnInput.provider)
    /\ UNCHANGED <<requestHooks, responseHooks, errorHooks, attempt, lastError,
                   attempts, trace, outcome, clsVars, streamVars, fnInput, clock, calls>>

SpecConfig == InitConfig /\ [][ConstructFrom]_vars

(***************************************************************************)
(* Streaming (AIClient.chatStream): an async generator over the provider's *)
(* async iterable.  No retry loop and no timeout guard are involved.       *)
(***************************************************************************)
\* new AIClientError("Streaming not supported by this provider", provider)
StreamingUnsupported(provider) ==
    [name |-> "AIClientError", message |-> "Streaming not supported by this provider",
     provider |-> Some(provider), statusCode |-> None, originalError |-> None]

\* new AIClientError(`Streaming error: ...`, provider, undefined, error)
StreamingError(provider, error) ==
    [name |-> "AIClientError", message |-> "Streaming error",
     provider |-> Some(provider), statusCode |-> None, originalError |-> Some(error)]

\* BaseProvider.chatStream is an async method, not a generator: it returns a
\* rejected promise, and for await over a promise raises this error
NotIterable ==
    [name |-> "TypeError", id |-> 0, status |-> None, statusCode |-> None,
     respStatus |-> None, code |-> None, provider |-> None]

\* a provider written against LLMProvider / BaseProvider: chatStream is
\* missing, inherited from BaseProvider, or its own async generator
StreamCapabilities == {"absent", "inherited", "own"}

CustomProvider(cap) == [name |-> "custom", chatStream |-> cap]

\* ChatStreamChunk
Chunks == [content : {"a", "b"}, done : BOOLEAN]

\* errors a provider stream raises
StreamFailures ==
    {ProviderError(0, Some(503), None), ProviderError(0, None, Some("ECONNRESET"))}

OpenSource == [tag |-> "open", yielded |-> <<>>]

\* variant that stops forwarding once a chunk flagged done was delivered
ForwardUntilDone(sofar, chunk) ==
    IF \E i \in 1 .. Len(sofar) : sofar[i].done THEN sofar ELSE Append(sofar, chunk)

\* for await (const chunk of stream) { yield chunk }
Forward(sofar, chunk) == Append(sofar, chunk)

\* variant of the catch block that rethrows the provider's error as it is
StreamCatchRethrows(cfg, hooks, error) ==
    LET d == DispatchFrom("error", hooks, error, 1)
    IN  [events |-> d.events, outcome |-> Thrown(error)]

\* variant of the catch block that sleeps and invokes the provider's chatStream
\* again after a retryable error
StreamCatchRetries(cfg, hooks, error) ==
    LET d == DispatchFrom("error", hooks, error, 1)
        again == IF isRetryableError(error)
                 THEN <<Event("sleep", 0, BackoffDelay(cfg, 0)), Event("open", 1, None)>>
                 ELSE <<>>
    IN  [events |-> d.events \o again,
         outcome |-> Thrown(StreamingError(cfg.provider, error))]

\* catch (error) { error hooks; throw new AIClientError(...) }: lines 534-549
StreamCatch(cfg, hooks, error) ==
    LET d == DispatchFrom("error", hooks, error, 1)
    IN  [events |-> d.events,
         outcome |-> IF d.escaped THEN Thrown(HookError)
                     ELSE Thrown(StreamingError(cfg.provider, error))]

\* configurations of the clients that stream
StreamConfigInputs ==
    {c \in ConfigInputs : c.maxRetries = Omitted /\ c.retryDelay = Omitted}

\* a provider implementation is installed in place of the built-in one
InstallProvider(cap) ==
    /\ pc = "idle"
    /\ providerObj.name \in ProviderNames
    /\ providerObj' = CustomProvider(cap)
    /\ UNCHANGED <<callVars, otherVars>>

\* the consumer's first next() on client.chatStream(messages): lines 506-530
chatStream ==
    /\ pc = "idle"
    /\ IF providerObj.chatStream = "absent"
       THEN /\ pc' = "streamFailed"
            /\ outcome' = Thrown(StreamingUnsupported(config.provider))
            /\ trace' = trace
            /\ source' = source
       ELSE LET d == DispatchFrom("request", requestHooks, config, 1)
                call == <<Event("open", 0, None)>>
            IN  IF d.escaped
                THEN /\ pc' = "streamFailed"
                     /\ outcome' = Thrown(HookError)
                     /\ trace' = trace \o d.events
                     /\ source' = source
                ELSE IF providerObj.chatStream = "inherited"
                THEN LET c == StreamCatch(config, errorHooks, NotIterable)
                     IN  /\ pc' = "streamFailed"
                         /\ outcome' = c.outcome
                         /\ trace' = trace \o d.events \o call \o c.events
                         /\ source' = [tag |-> "failed", yielded |-> <<>>,
                                        error |-> NotIterable]
                ELSE /\ pc' = "streaming"
                     /\ outcome' = outcome
                     /\ trace' = trace \o d.events \o call
                     /\ source' = OpenSource
    /\ UNCHANGED <<config, requestHooks, responseHooks, errorHooks, attempt,
                   lastError, attempts, delivered, providerObj, clsVars, fnVars, clock, calls>>

\* the provider's stream yields a chunk and the generator yields it on
ProviderYields(chunk) ==
    /\ pc = "streaming"
    /\ Len(source.yielded) < MaxChunks
    /\ source' = [source EXCEPT !.yielded = Append(@, chunk)]
    /\ delivered' = Forward(delivered, chunk)
    /\ UNCHANGED <<callVars, providerObj, clsVars, fnVars, clock, calls>>

\* the provider's stream ends: the for await loop and the generator complete
ProviderEnds ==
    /\ pc = "streaming"
    /\ pc' = "streamDone"
    /\ source' = [source EXCEPT !.tag = "ended"]
    /\ outcome' = Returned(None)
    /\ UNCHANGED <<config, requestHooks, responseHooks, errorHooks, attempt,
                   lastError, attempts, trace, delivered, providerObj, clsVars, fnVars, clock, calls>>

\* the provider's stream raises e: the catch block runs
ProviderThrows(e) ==
    /\ pc = "streaming"
    /\ LET c == StreamCatch(config, errorHooks, e)
       IN  /\ pc' = "streamFailed"
           /\ outcome' = c.outcome
           /\ trace' = trace \o c.events
    /\ source' = [tag |-> "failed", yielded |-> source.yielded, error |-> e]
    /\ UNCHANGED <<config, requestHooks, responseHooks, errorHooks, attempt,
                   lastError, attempts, delivered, providerObj, clsVars, fnVars, clock, calls>>

NextStream ==
    \/ \E c \in StreamConfigInputs : Construct(c)
    \/ \E cap \in StreamCapabilities : InstallProvider(cap)
    \/ \E h \in Hooks : onRequest(h)
    \/ \E h \in Hooks : onResponse(h)
    \/ \E h \in Hooks : onError(h)
    \/ chatStream
    \/ \E chunk \in Chunks : ProviderYields(chunk)
    \/ ProviderEnds
    \/ \E e \in StreamFailures : ProviderThrows(e)

SpecStream == Init /\ [][NextStream]_vars

(***************************************************************************)
(* Response texts and their parsing (AIClient.classifySentiment).  A text  *)
(* is a sequence of characters; a run of letters is kept as one symbol,    *)
(* which split, trim and parseFloat treat like any other non-blank,        *)
(* non-numeric character.                                                  *)
(***************************************************************************)
Blank == " "

Digits == {"0", "1", "5", "9"}

DigitValue(d) == IF d = "0" THEN 0 ELSE IF d = "1" THEN 1 ELSE IF d = "5" THEN 5 ELSE 9

\* position of the first sep in text, 0 when there is none
IndexOf(text, sep) ==
    IF \E i \in 1 .. Len(text) : text[i] = sep
    THEN CHOOSE i \in 1 .. Len(text) :
             text[i] = sep /\ \A j \in 1 .. i - 1 : text[j] # sep
    ELSE 0

\* text.split(sep)
RECURSIVE Split(_, _)
Split(text, sep) ==
    LET i == IndexOf(text, sep)
    IN  IF i = 0 THEN <<text>>
        ELSE <<SubSeq(text, 1, i - 1)>> \o Split(SubSeq(text, i + 1, Len(text)), sep)

RECURSIVE TrimStart(_)
TrimStart(text) ==
    IF text # <<>> /\ Head(text) = Blank THEN TrimStart(Tail(text)) ELSE text

RECURSIVE TrimEnd(_)
TrimEnd(text) ==
    IF text # <<>> /\ text[Len(text)] = Blank
    THEN TrimEnd(SubSeq(text, 1, Len(text) - 1)) ELSE text

\* text.trim()
Trim(text) == TrimEnd(TrimStart(text))

\* text.toLowerCase()
LowerCaseOf(ch) ==
    IF ch = "Positive" THEN "positive"
    ELSE IF ch = "NEGATIVE" THEN "negative"
    ELSE ch

ToLowerCase(text) == [i \in 1 .. Len(text) |-> LowerCaseOf(text[i])]

\* numbers: NaN, or the fraction num / den with den a power of ten; plus and
\* minus infinity are 1 / 0 and -1 / 0
NaN == [nan |-> TRUE]
Number(num, den) == [nan |-> FALSE, num |-> num, den |-> den]

\* the longest prefix of text made of digits
RECURSIVE DigitPrefix(_)
DigitPrefix(text) ==
    IF text # <<>> /\ Head(text) \in Digits
    THEN <<Head(text)>> \o DigitPrefix(Tail(text)) ELSE <<>>

\* the value of a string of digits after the value acc of the digits before it
RECURSIVE DigitsValue(_, _)
DigitsValue(acc, ds) ==
    IF ds = <<>> THEN acc ELSE DigitsValue(10 * acc + DigitValue(Head(ds)), Tail(ds))

RECURSIVE Pow10(_)
Pow10(n) == IF n <= 0 THEN 1 ELSE 10 * Pow10(n - 1)

\* parseFloat(text): leading blanks are skipped, then an optional sign, then
\* either the word Infinity or digits, an optional point and digits are read;
\* whatever follows is ignored; NaN when no digit was read
parseFloat(text) ==
    LET t == TrimStart(text)
        negative == t # <<>> /\ Head(t) = "-"
        u == IF t # <<>> /\ Head(t) \in {"-", "+"} THEN Tail(t) ELSE t
        int == DigitPrefix(u)
        afterInt == SubSeq(u, Len(int) + 1, Len(u))
        frac == IF afterInt # <<>> /\ Head(afterInt) = "."
                THEN DigitPrefix(Tail(afterInt)) ELSE <<>>
        magnitude == DigitsValue(DigitsValue(0, int), frac)
    IN  IF u # <<>> /\ Head(u) = "Infinity"
        THEN Number(IF negative THEN 0 - 1 ELSE 1, 0)
        ELSE IF int = <<>> /\ frac = <<>> THEN NaN
        ELSE Number(IF negative THEN 0 - magnitude ELSE magnitude, Pow10(Len(frac)))

\* variant without the clamp
Unclamped(x) == x

\* Math.max(0, Math.min(1, x))
Clamp(x) ==
    IF x.num > x.den THEN Number(1, 1)
    ELSE IF x.num < 0 THEN Number(0, 1)
    ELSE x

SentimentLabels == {<<"positive">>, <<"neutral">>, <<"negative">>}

DefaultScore == Number(5, 10)

\* lines 446-460: from result.content to (sentiment, score)
classifySentiment(content) ==
    LET parts == Split(content, "|")
    IN  IF Len(parts) >= 2
        THEN LET sent == ToLowerCase(Trim(parts[1]))
                 parsedScore == parseFloat(Trim(parts[2]))
             IN  [sentiment |-> IF sent \in SentimentLabels THEN sent ELSE <<"neutral">>,
                  score |-> IF ~parsedScore.nan THEN Clamp(parsedScore) ELSE DefaultScore]
        ELSE [sentiment |-> <<"neutral">>, score |-> DefaultScore]

\* the parts response texts are made of
PartStrings ==
    {<<>>, <<"positive">>, <<Blank, "Positive", Blank>>, <<"NEGATIVE">>, <<"neutral">>,
     <<"maybe">>, <<"0", ".", "9", "5">>, <<Blank, "0", ".", "5">>, <<"5">>,
     <<"-", "1">>, <<".", "5">>, <<"-">>, <<"0", ".", "9", "maybe">>,
     <<"-", "Infinity">>}

\* parts.join("|")
RECURSIVE Join(_)
Join(parts) ==
    IF Len(parts) = 0 THEN <<>>
    ELSE IF Len(parts) = 1 THEN parts[1]
    ELSE parts[1] \o <<"|">> \o Join(Tail(parts))

\* response texts of 1 to MaxParts parts
SentimentTexts ==
    {Join(parts) : parts \in UNION {[1 .. n -> PartStrings] : n \in 1 .. MaxParts}}

InitSentiment ==
    /\ pc = "new"
    /\ config = NoConfig
    /\ requestHooks = <<>>
    /\ responseHooks = <<>>
    /\ errorHooks = <<>>
    /\ attempt = 0
    /\ lastError = NoError
    /\ attempts = <<>>
    /\ trace = <<>>
    /\ outcome = NoOutcome
    /\ providerObj = NoProvider
    /\ ClsIdle
    /\ StreamIdle
    /\ ClockIdle
    /\ CallsIdle
    /\ fnInput \in SentimentTexts
    /\ fnOutput = None

\* classifySentiment once the provider answered with fnInput
ParseSentimentResponse ==
    /\ fnOutput = None
    /\ fnOutput' = Some(classifySentiment(fnInput))
    /\ UNCHANGED <<callVars, providerObj, clsVars, streamVars, fnInput, clock, calls>>

SpecSentiment == InitSentiment /\ [][ParseSentimentResponse]_vars

(***************************************************************************)
(* Bullet parsing (AIClient.summarizeToBullets).                           *)
(***************************************************************************)
\* the state of the variables no client was built on
NoClient ==
    /\ pc = "new"
    /\ config = NoConfig
    /\ requestHooks = <<>>
    /\ responseHooks = <<>>
    /\ errorHooks = <<>>
    /\ attempt = 0
    /\ lastError = NoError
    /\ attempts = <<>>
    /\ trace = <<>>
    /\ outcome = NoOutcome
    /\ providerObj = NoProvider
    /\ ClsIdle
    /\ StreamIdle
    /\ ClockIdle
    /\ CallsIdle

NewLine == "\n"

\* the character class of the regular expression /^[-*...]\s*/ as the source
\* file holds it: '-', '*' and the three characters U+00E2, U+20AC, U+00A2
BulletMarkers == {"-", "*", "U+00E2", "U+20AC", "U+00A2"}

\* line.replace(/^[-*...]\s*/, "")
StripMarker(line) ==
    IF line # <<>> /\ Head(line) \in BulletMarkers
    THEN TrimStart(Tail(line)) ELSE line

\* line.length > 0
NonEmpty(line) == Len(line) > 0

\* lines 376-382: from result.content to the bullets
summarizeToBullets(content) ==
    LET lines == Split(content, NewLine)
        trimmed == [i \in 1 .. Len(lines) |-> Trim(lines[i])]
        kept == SelectSeq(trimmed, NonEmpty)
        stripped == [i \in 1 .. Len(kept) |-> StripMarker(kept[i])]
    IN  SelectSeq(stripped, NonEmpty)

\* the lines response texts are made of
LineStrings ==
    {<<>>, <<Blank>>, <<"-", Blank, "First">>, <<"*", Blank, "Second">>, <<"Third">>,
     <<Blank, "U+2022", Blank, "Fourth">>, <<"-">>, <<"-", "-", Blank, "Fifth">>,
     <<"U+00E2", "ge">>}

\* lines.join("\n")
RECURSIVE JoinLines(_)
JoinLines(lines) ==
    IF Len(lines) = 0 THEN <<>>
    ELSE IF Len(lines) = 1 THEN lines[1]
    ELSE lines[1] \o <<NewLine>> \o JoinLines(Tail(lines))

\* response texts of 1 to MaxLines lines
BulletTexts ==
    {JoinLines(lines) : lines \in UNION {[1 .. n -> LineStrings] : n \in 1 .. MaxLines}}

InitBullets ==
    /\ NoClient
    /\ fnInput \in BulletTexts
    /\ fnOutput = None

\* summarizeToBullets once the provider answered with fnInput
ParseBulletsResponse ==
    /\ fnOutput = None
    /\ fnOutput' = Some(summarizeToBullets(fnInput))
    /\ UNCHANGED <<callVars, providerObj, clsVars, streamVars, fnInput, clock, calls>>

SpecBullets == InitBullets /\ [][ParseBulletsResponse]_vars

(***************************************************************************)
(* Construction from the environment (parseEnvConfig, AIClient.fromEnv).   *)
(***************************************************************************)
\* (a || b) for two optional strings: undefined and "" are falsy
OrString(a, b) == IF a # None /\ a # Some("") THEN a ELSE b

Truthy(s) == s # None /\ s # Some("")

\* parseInt(text, 10) of a string of decimal digits
parseInt(text) == DigitsValue(0, DigitPrefix(text))

\* process.env.X ? parseInt(process.env.X, 10) : undefined
IntField(s) == IF s # None /\ s[1] # <<>> THEN Val(parseInt(s[1])) ELSE Undefined

\* process.env.AI_TEMPERATURE ? parseFloat(...) : undefined, in tenths
TenthsField(s) ==
    IF s # None /\ s[1] # <<>>
    THEN LET x == parseFloat(s[1]) IN Val((x.num * 10) \div x.den)
    ELSE Undefined

\* process.env as far as parseEnvConfig reads it
Environments ==
    [AI_PROVIDER : {None, Some(""), Some("openai"), Some("gemini"), Some("other")},
     PROVIDER : {None, Some("gemini")},
     OPENAI_API_KEY : {None, Some(""), Some("sk-openai")},
     GEMINI_API_KEY : {None, Some("gemini-key")},
     GOOGLE_AI_API_KEY : {None, Some("google-key")},
     AI_MODEL : {None, Some("env-model")},
     MODEL : {None},
     AI_TEMPERATURE : {None, Some(<<"0", ".", "5">>)},
     AI_MAX_TOKENS : {None},
     AI_TIMEOUT : {None, Some(<<"5", "0", "0", "0">>)},
     AI_MAX_RETRIES : {None, Some(<<"0">>), Some(<<"5">>)}]

\* lines 308-321: the provider and the key parseEnvConfig settles on
ResolveCredential(provider, openaiKey, geminiKey) ==
    IF provider = Some("openai") /\ Truthy(openaiKey)
    THEN [provider |-> provider, apiKey |-> openaiKey]
    ELSE IF provider = Some("gemini") /\ Truthy(geminiKey)
    THEN [provider |-> provider, apiKey |-> geminiKey]
    ELSE IF ~Truthy(provider)
    THEN IF Truthy(openaiKey) THEN [provider |-> Some("openai"), apiKey |-> openaiKey]
         ELSE IF Truthy(geminiKey) THEN [provider |-> Some("gemini"), apiKey |-> geminiKey]
         ELSE [provider |-> provider, apiKey |-> None]
    ELSE [provider |-> provider, apiKey |-> None]

\* variant that takes whichever key is set when the named provider's key is not
parseEnvConfigAnyKey(env) ==
    LET provider == OrString(env.AI_PROVIDER, env.PROVIDER)
        openaiKey == env.OPENAI_API_KEY
        geminiKey == OrString(env.GEMINI_API_KEY, env.GOOGLE_AI_API_KEY)
        model == OrString(env.AI_MODEL, env.MODEL)
    IN  [provider |-> provider,
         apiKey |-> OrString(openaiKey, geminiKey),
         model |-> IF model = None THEN Undefined ELSE Val(model[1]),
         temperature |-> TenthsField(env.AI_TEMPERATURE),
         maxTokens |-> IntField(env.AI_MAX_TOKENS),
         timeout |-> IntField(env.AI_TIMEOUT),
         maxRetries |-> IntField(env.AI_MAX_RETRIES)]

\* parseEnvConfig(): it has no throwing path
parseEnvConfig(env) ==
    LET provider == OrString(env.AI_PROVIDER, env.PROVIDER)
        openaiKey == env.OPENAI_API_KEY
        geminiKey == OrString(env.GEMINI_API_KEY, env.GOOGLE_AI_API_KEY)
        model == OrString(env.AI_MODEL, env.MODEL)
        resolved == ResolveCredential(provider, openaiKey, geminiKey)
    IN  [provider |-> resolved.provider,
         apiKey |-> resolved.apiKey,
         model |-> IF model = None THEN Undefined ELSE Val(model[1]),
         temperature |-> TenthsField(env.AI_TEMPERATURE),
         maxTokens |-> IntField(env.AI_MAX_TOKENS),
         timeout |-> IntField(env.AI_TIMEOUT),
         maxRetries |-> IntField(env.AI_MAX_RETRIES)]

\* envConfig as AIClientConfig: the argument fromEnv passes to the constructor
AsConfig(envConfig) ==
    [provider |-> envConfig.provider[1],
     apiKey |-> envConfig.apiKey[1],
     model |-> envConfig.model,
     temperature |-> envConfig.temperature,
     maxRetries |-> envConfig.maxRetries,
     retryDelay |-> Omitted,
     timeout |-> envConfig.timeout]

MissingEnvironment == AIClientError("Missing required environment variables")

\* AIClient.fromEnv() in the environment env: what the caller gets
fromEnv(env) ==
    LET envConfig == parseEnvConfig(env)
    IN  IF ~Truthy(envConfig.provider) \/ ~Truthy(envConfig.apiKey)
        THEN Thrown(MissingEnvironment)
        ELSE IF ConstructorThrows(AsConfig(envConfig))
        THEN Thrown(ConstructorError(AsConfig(envConfig)))
        ELSE Returned(ConstructedConfig(AsConfig(envConfig)))

InitEnv ==
    /\ NoClient
    /\ fnInput \in Environments
    /\ fnOutput = None

\* AIClient.fromEnv()
ConstructFromEnv ==
    /\ pc = "new"
    /\ fnOutput = None
    /\ LET r == fromEnv(fnInput)
       IN  /\ fnOutput' = Some(r)
           /\ IF r.kind = "thrown"
              THEN /\ pc' = "ctorFailed"
                   /\ config' = config
                   /\ providerObj' = providerObj
              ELSE /\ pc' = "idle"
                   /\ config' = r.value
                   /\ providerObj' = ProviderObject(r.value.provider)
    /\ UNCHANGED <<requestHooks, responseHooks, errorHooks, attempt, lastError,
                   attempts, trace, outcome, clsVars, streamVars, fnInput, clock, calls>>

SpecEnv == InitEnv /\ [][ConstructFromEnv]_vars

(***************************************************************************)
(* The retry loop with time: each executeWithTimeout arms a timer with     *)
(* setTimeout(..., timeout), each sleep is a setTimeout(..., delay).  A    *)
(* timer callback runs when its delay has elapsed, or later.               *)
(***************************************************************************)
\* clients whose timeout and delays are a few milliseconds
TimedConfigInputs ==
    [provider : {"openai"},
     apiKey : {"key"},
     model : {Omitted},
     temperature : {Omitted},
     maxRetries : {Val(1), Val(2)},
     retryDelay : {Val(1)},
     timeout : {Val(2), Val(3)}]

\* variant with one deadline for the whole call, counted from its first attempt
DeadlineOfCall(cfg, clk, k) == clk.armedAt[1] + EffTimeout(cfg)

\* setTimeout(() => reject(new TimeoutError(...)), timeout) in the k-th
\* executeWithTimeout: the earliest time the callback runs
Deadline(cfg, clk, k) == clk.armedAt[k] + EffTimeout(cfg)

\* await sleep(delay) after the k-th attempt settled: the earliest wake-up
WakeUp(cfg, clk, k) == clk.settledAt[k] + BackoffDelay(cfg, k - 1)

\* time passes
Tick ==
    /\ pc \in {"idle", "inflight", "sleeping"}
    /\ clock.now < MaxTime
    /\ clock' = [clock EXCEPT !.now = @ + 1]
    /\ UNCHANGED <<callVars, providerObj, clsVars, streamVars, fnVars, calls>>

\* callProvider(input) at time clock.now
TimedCall ==
    /\ pc = "idle"
    /\ 0 <= EffMaxRetries(config)
    /\ pc' = "inflight"
    /\ attempt' = 0
    /\ trace' = trace \o DispatchFrom("request", requestHooks, config, 1).events
                      \o <<Event("attempt", 0, None)>>
    /\ attempts' = Append(attempts, NewAttempt)
    /\ clock' = [clock EXCEPT !.armedAt = Append(@, clock.now)]
    /\ UNCHANGED <<config, requestHooks, responseHooks, errorHooks, lastError,
                   outcome, providerObj, clsVars, streamVars, fnVars, calls>>

\* the guard of the current attempt settles at time clock.now
TimedResume(r) ==
    LET n == AfterGuard(config, responseHooks, errorHooks, attempt, r.guard)
    IN  /\ attempts' = [attempts EXCEPT ![Len(attempts)] = r]
        /\ pc' = n.pc
        /\ outcome' = n.outcome
        /\ trace' = trace \o n.events
        /\ lastError' = IF r.guard.state = "rejected" THEN r.guard.value ELSE lastError
        /\ clock' = [clock EXCEPT !.settledAt = Append(@, clock.now)]
        /\ UNCHANGED <<config, requestHooks, responseHooks, errorHooks, attempt,
                       providerObj, clsVars, streamVars, fnVars, calls>>

TimedWorkResolves(result) ==
    /\ pc = "inflight"
    /\ TimedResume(WorkSettled(attempts[Len(attempts)], "resolved", result))

TimedWorkRejects(f) ==
    /\ pc = "inflight"
    /\ TimedResume(WorkSettled(attempts[Len(attempts)], "rejected",
                               ProviderError(attempt, f.status, f.code)))

\* the timer callback of the current attempt runs
TimedTimerFires ==
    /\ pc = "inflight"
    /\ attempts[Len(attempts)].timer = "armed"
    /\ clock.now >= Deadline(config, clock, Len(attempts))
    /\ TimedResume(TimerFired(attempts[Len(attempts)], config.provider))

\* the sleep's timer callback runs: next iteration, next executeWithTimeout
TimedBackoffElapses ==
    /\ pc = "sleeping"
    /\ clock.now >= WakeUp(config, clock, Len(attempts))
    /\ attempt + 1 <= EffMaxRetries(config)
    /\ attempt' = attempt + 1
    /\ pc' = "inflight"
    /\ trace' = Append(trace, Event("attempt", attempt + 1, None))
    /\ attempts' = Append(attempts, NewAttempt)
    /\ clock' = [clock EXCEPT !.armedAt = Append(@, clock.now)]
    /\ UNCHANGED <<config, requestHooks, responseHooks, errorHooks, lastError,
                   outcome, providerObj, clsVars, streamVars, fnVars, calls>>

NextTimed ==
    \/ \E c \in TimedConfigInputs : Construct(c)
    \/ Tick
    \/ TimedCall
    \/ \E r \in ProviderResults : TimedWorkResolves(r)
    \/ \E f \in FailureShapes : TimedWorkRejects(f)
    \/ TimedTimerFires
    \/ TimedBackoffElapses

SpecTimed == Init /\ [][NextTimed]_vars

(***************************************************************************)
(* Calls issued side by side on one client (Promise.all over task calls).  *)
(* Each invocation of callProvider / executeWithRetry / executeWithTimeout *)
(* has its own locals (attempt, maxRetries, lastError, timeoutId); the     *)
(* calls share this.config and the three hook registries.                  *)
(***************************************************************************)
\* clients that issue calls side by side
ConcurrentConfigInputs ==
    [provider : {"openai"},
     apiKey : {"key"},
     model : {Omitted},
     temperature : {Omitted},
     maxRetries : {Val(1), Val(2)},
     retryDelay : {Val(250)},
     timeout : {Omitted}]

\* what the provider answers in these runs
ConcurrentResults == {r \in ProviderResults : r.model = None}

\* how the provider fails in these runs: a server error, a client error
ConcurrentFailures == {f \in FailureShapes : f.status # None}

\* variant with one attempt counter kept on the client for all its calls
AttemptOfClient(cs, i) ==
    LET RECURSIVE Sum(_)
        Sum(j) == IF j = 0 THEN 0 ELSE cs[j].attempt + Sum(j - 1)
    IN  Sum(Len(cs))

\* the loop variable `attempt` of the executeWithRetry invocation of call i
AttemptOf(cs, i) == cs[i].attempt

\* callProvider(input) up to its first await, for one more call
IssueCall ==
    /\ pc = "idle"
    /\ Len(calls) < MaxCalls
    /\ LET d == DispatchFrom("request", requestHooks, config, 1)
           started == 0 <= EffMaxRetries(config)
       IN  calls' = Append(calls,
               [pc |-> IF started THEN "inflight" ELSE "thrown",
                attempt |-> 0,
                lastError |-> NoError,
                attempts |-> IF started THEN <<NewAttempt>> ELSE <<>>,
                trace |-> IF started THEN d.events \o <<Event("attempt", 0, None)>>
                          ELSE d.events,
                outcome |-> IF started THEN NoOutcome
                            ELSE Thrown(AIClientError("Failed to execute chat"))])
    /\ UNCHANGED <<callVars, providerObj, clsVars, streamVars, fnVars, clock>>

\* the guard of the current attempt of call i settles and its loop resumes
CallResume(i, r) ==
    LET c == calls[i]
        n == AfterGuard(config, responseHooks, errorHooks, AttemptOf(calls, i), r.guard)
    IN  /\ calls' = [calls EXCEPT ![i] =
               [pc |-> n.pc,
                attempt |-> c.attempt,
                lastError |-> IF r.guard.state = "rejected" THEN r.guard.value
                              ELSE c.lastError,
                attempts |-> [c.attempts EXCEPT ![Len(c.attempts)] = r],
                trace |-> c.trace \o n.events,
                outcome |-> n.outcome]]
        /\ UNCHANGED <<callVars, providerObj, clsVars, streamVars, fnVars, clock>>

CallWorkResolves(i, result) ==
    /\ i \in 1 .. Len(calls)
    /\ calls[i].pc = "inflight"
    /\ CallResume(i, WorkSettled(calls[i].attempts[Len(calls[i].attempts)],
                                 "resolved", result))

CallWorkRejects(i, f) ==
    /\ i \in 1 .. Len(calls)
    /\ calls[i].pc = "inflight"
    /\ CallResume(i, WorkSettled(calls[i].attempts[Len(calls[i].attempts)], "rejected",
                                 ProviderError(calls[i].attempt, f.status, f.code)))

CallTimerFires(i) ==
    /\ i \in 1 .. Len(calls)
    /\ calls[i].pc = "inflight"
    /\ calls[i].attempts[Len(calls[i].attempts)].timer = "armed"
    /\ CallResume(i, TimerFired(calls[i].attempts[Len(calls[i].attempts)],
                                config.provider))

\* the sleep of call i ends: continue, attempt++, loop test, next attempt
CallBackoffElapses(i) ==
    /\ i \in 1 .. Len(calls)
    /\ calls[i].pc = "sleeping"
    /\ LET c == calls[i]
           a == AttemptOf(calls, i) + 1
       IN  calls' = [calls EXCEPT ![i] =
               IF a <= EffMaxRetries(config)
               THEN [c EXCEPT !.pc = "inflight",
                              !.attempt = c.attempt + 1,
                              !.trace = Append(@, Event("attempt", a, None)),
                              !.attempts = Append(@, NewAttempt)]
               ELSE [c EXCEPT !.pc = "thrown",
                              !.attempt = c.attempt + 1,
                              !.outcome = Thrown(c.lastError)]]
    /\ UNCHANGED <<callVars, providerObj, clsVars, streamVars, fnVars, clock>>

\* client.onError(h) before the calls are issued
RegisterBeforeCalls(h) ==
    /\ calls = NoCalls
    /\ onError(h)

NextConcurrent ==
    \/ \E c \in ConcurrentConfigInputs : Construct(c)
    \/ \E h \in Hooks : RegisterBeforeCalls(h)
    \/ IssueCall
    \/ \E i \in 1 .. MaxCalls : \E r \in ConcurrentResults : CallWorkResolves(i, r)
    \/ \E i \in 1 .. MaxCalls : \E f \in ConcurrentFailures : CallWorkRejects(i, f)
    \/ \E i \in 1 .. MaxCalls : CallTimerFires(i)
    \/ \E i \in 1 .. MaxCalls : CallBackoffElapses(i)

SpecConcurrent == Init /\ [][NextConcurrent]_vars

(***************************************************************************)
(* The client with all its operations: construction, hook registration,    *)
(* a non-streaming call and a streaming call.                              *)
(***************************************************************************)
NextClient ==
    \/ \E c \in StreamConfigInputs : Construct(c)
    \/ \E h \in Hooks : onRequest(h)
    \/ \E h \in Hooks : onResponse(h)
    \/ \E h \in Hooks : onError(h)
    \/ callProvider
    \/ \E r \in ProviderResults : WorkResolves(r)
    \/ \E f \in FailureShapes : WorkRejects(f)
    \/ TimerFires
    \/ BackoffElapses
    \/ chatStream
    \/ \E chunk \in Chunks : ProviderYields(chunk)
    \/ ProviderEnds
    \/ \E e \in StreamFailures : ProviderThrows(e)

SpecClient == Init /\ [][NextClient]_vars

(***************************************************************************)
(* A non-streaming call under the scheduling the runtime gives: a timer    *)
(* that is armed fires (the callback of setTimeout runs) unless it is      *)
(* cleared first, and a sleep ends.  Nothing is assumed of the provider:   *)
(* its call may settle at any time or never.                               *)
(***************************************************************************)
\* the configurations of the clients whose calls are followed to their end
LiveConfigInputs ==
    {c \in ConfigInputs : c.provider = "openai" /\ c.apiKey = "key" /\ c.retryDelay = Omitted}

NextLive ==
    \/ \E c \in LiveConfigInputs : Construct(c)
    \/ \E h \in Hooks : onRequest(h)
    \/ \E h \in Hooks : onResponse(h)
    \/ \E h \in Hooks : onError(h)
    \/ callProvider
    \/ \E r \in ProviderResults : WorkResolves(r)
    \/ \E f \in FailureShapes : WorkRejects(f)
    \/ TimerFires
    \/ \E r \in ProviderResults : AbandonedWorkResolves(r)
    \/ \E f \in FailureShapes : AbandonedWorkRejects(f)
    \/ BackoffElapses

\* timers eventually fire
TimersFire == WF_vars(TimerFires) /\ WF_vars(BackoffElapses)

SpecLive == Init /\ [][NextLive]_vars /\ TimersFire

(***************************************************************************)
(* The chunks of the built-in providers' chatStream: each chunk of the     *)
(* backend's stream is converted to a ChatStreamChunk {content, done}.     *)
(***************************************************************************)
\* the JavaScript value null
JsNull == [tag |-> "null"]

\* finish_reason / finishReason as a backend chunk carries it
FinishReasons == {JsNull, Undefined, Val("stop")}

\* chunks of the OpenAI stream: no choice at all (a usage chunk), or one choice
\* with its finish_reason and with or without delta.content
OpenAIChunks ==
    [choices : {<<>>} \cup
               {<<c>> : c \in [finish_reason : FinishReasons,
                               content : {Undefined, Val("Hi")}]}]

\* chunks of the Gemini stream: candidates undefined, empty, or one candidate
\* with its finishReason; text is what chunk.text() returns
GeminiChunks ==
    [candidates : {Undefined, Val(<<>>)} \cup
                  {Val(<<c>>) : c \in [finishReason : FinishReasons]},
     text : {"", "Hi"}]

\* x !== null
StrictlyNotNull(x) == x # JsNull

\* chunk.choices[0]?.finish_reason: undefined when there is no first choice
OpenAIFinishReason(chunk) ==
    IF chunk.choices = <<>> THEN Undefined ELSE chunk.choices[1].finish_reason

\* chunk.choices[0]?.delta?.content || ""
OpenAIDelta(chunk) ==
    IF chunk.choices = <<>> THEN ""
    ELSE IF chunk.choices[1].content.tag = "value" THEN chunk.choices[1].content.v
    ELSE ""

\* the chunk OpenAIProvider.chatStream yields for a backend chunk
OpenAIStreamChunk(chunk) ==
    [content |-> OpenAIDelta(chunk),
     done |-> StrictlyNotNull(OpenAIFinishReason(chunk))]

\* chunk.candidates?.[0]?.finishReason: undefined when candidates is undefined
\* or has no first element
GeminiFinishReason(chunk) ==
    IF chunk.candidates = Undefined THEN Undefined
    ELSE IF chunk.candidates.v = <<>> THEN Undefined
    ELSE chunk.candidates.v[1].finishReason

\* the chunk GeminiProvider.chatStream yields for a backend chunk
GeminiStreamChunk(chunk) ==
    [content |-> chunk.text,
     done |-> StrictlyNotNull(GeminiFinishReason(chunk))]

\* the backend streams: one to MaxChunks chunks of one backend
BackendStreams ==
    UNION {[provider : {"openai"}, chunks : [1 .. n -> OpenAIChunks]] \cup
           [provider : {"gemini"}, chunks : [1 .. n -> GeminiChunks]] : n \in 1 .. MaxChunks}

InitChunks ==
    /\ NoClient
    /\ fnInput \in BackendStreams
    /\ fnOutput = <<>>

\* one iteration of the for await loop of OpenAIProvider.chatStream
OpenAIYields ==
    /\ fnInput.provider = "openai"
    /\ Len(fnOutput) < Len(fnInput.chunks)
    /\ fnOutput' = Append(fnOutput, OpenAIStreamChunk(fnInput.chunks[Len(fnOutput) + 1]))
    /\ UNCHANGED <<callVars, providerObj, clsVars, streamVars, fnInput, clock, calls>>

\* one iteration of the for await loop of GeminiProvider.chatStream
GeminiYields ==
    /\ fnInput.provider = "gemini"
    /\ Len(fnOutput) < Len(fnInput.chunks)
    /\ fnOutput' = Append(fnOutput, GeminiStreamChunk(fnInput.chunks[Len(fnOutput) + 1]))
    /\ UNCHANGED <<callVars, providerObj, clsVars, streamVars, fnInput, clock, calls>>

NextChunks ==
    \/ OpenAIYields
    \/ GeminiYields

SpecChunks == InitChunks /\ [][NextChunks]_vars

(***************************************************************************)
(* Vocabulary of the properties.                                           *)
(***************************************************************************)
Constructed == pc \notin {"new", "ctorFailed"}

\* the retry count the caller configured: the value given, else the documented default
ConfiguredMaxRetries ==
    IF config.maxRetries.tag = "value" THEN config.maxRetries.v ELSE DefaultMaxRetries

\* the base delay the caller configured: the value given, else the documented default
ConfiguredRetryDelay ==
    IF config.retryDelay.tag = "value" THEN config.retryDelay.v ELSE DefaultRetryDelay

\* number of provider invocations of the call
NumAttempts == Len(attempts)

Failed(k) == attempts[k].guard.state = "rejected"
Succeeded(k) == attempts[k].guard.state = "resolved"
FailureOf(k) == attempts[k].guard.value

AllAttemptsFailedRetryably ==
    /\ NumAttempts >= 1
    /\ \A k \in 1 .. NumAttempts : Failed(k) /\ isRetryableError(FailureOf(k))

Positions(ev) == {p \in 1 .. Len(trace) : trace[p].ev = ev}

(***************************************************************************)
(* C1. For every configured maxRetries N >= 0, N = 0 included, one         *)
(* non-streaming call invokes the provider at most N + 1 times.            *)
(* Fails on the code: maxRetries = 0 is replaced by 3 (0 || 3).            *)
(***************************************************************************)
C1_AtMostNPlusOneAttempts ==
    (Constructed /\ ConfiguredMaxRetries >= 0)
        => NumAttempts <= ConfiguredMaxRetries + 1

(***************************************************************************)
(* C2. An attempt that fails with a failure classified non-retryable, at   *)
(* any attempt index, ends the call with that very error, unwrapped, and   *)
(* without a further attempt.                                              *)
(* Fails on the code at the last permitted index: the error is wrapped in  *)
(* a RetryError.                                                           *)
(***************************************************************************)
C2_NonRetryableFailsWithOriginalError ==
    (Constructed /\ lastError # NoError /\ ~isRetryableError(lastError))
        => /\ pc = "thrown"
           /\ outcome = Thrown(lastError)
           /\ Failed(NumAttempts)
           /\ FailureOf(NumAttempts) = lastError

(***************************************************************************)
(* C3. When every attempt fails with a retryable failure, the call makes   *)
(* exactly maxRetries + 1 attempts and fails with a RetryError carrying    *)
(* retries = the configured maxRetries, the configured provider and the    *)
(* failure of the last attempt.                                            *)
(* Fails on the code for maxRetries = 0 (see C1): 4 attempts, retries = 3. *)
(***************************************************************************)
C3_ExhaustionGivesRetryError ==
    (Constructed /\ pc = "thrown" /\ ConfiguredMaxRetries >= 0
         /\ AllAttemptsFailedRetryably)
        => /\ NumAttempts = ConfiguredMaxRetries + 1
           /\ outcome = Thrown(RetryError(ConfiguredMaxRetries, config.provider,
                                           FailureOf(NumAttempts)))

NumFailed == Cardinality({k \in 1 .. NumAttempts : Failed(k)})

Min(a, b) == IF a <= b THEN a ELSE b

(***************************************************************************)
(* C4. If the first j attempts fail with retryable failures and the next   *)
(* one succeeds, j <= configured maxRetries, the call returns that         *)
(* attempt's result after exactly j + 1 attempts: a retryable failure with *)
(* attempts remaining is followed by another attempt, and no attempt       *)
(* follows a success.                                                      *)
(***************************************************************************)
C4_RetryUntilSuccess ==
    Constructed =>
        \* a success is the last attempt, comes after retryable failures only, and
        \* its result is what the call returns
        /\ \A k \in 1 .. NumAttempts :
              Succeeded(k) =>
                  /\ k = NumAttempts
                  /\ pc = "returned"
                  /\ outcome = Returned(Decorate(config, attempts[k].guard.value))
                  /\ \A j \in 1 .. k - 1 : Failed(j) /\ isRetryableError(FailureOf(j))
        \* a retryable failure with attempts remaining is followed by the backoff
        \* sleep and then by the next attempt
        /\ \A k \in 1 .. NumAttempts :
              (Failed(k) /\ isRetryableError(FailureOf(k)) /\ k - 1 < ConfiguredMaxRetries)
                  => (k < NumAttempts \/ pc = "sleeping")
        /\ \A p \in Positions("sleep") :
              IF p = Len(trace) THEN pc = "sleeping"
              ELSE trace[p + 1] = Event("attempt", trace[p].idx + 1, None)
        /\ (pc = "returned" /\ NumFailed <= ConfiguredMaxRetries)
              => NumAttempts = Min(ConfiguredMaxRetries, NumFailed) + 1

\* two retryable failures, then a success on the last permitted attempt
C4_Witness ==
    /\ pc = "returned"
    /\ ConfiguredMaxRetries = 2
    /\ NumAttempts = 3
    /\ Failed(1) /\ Failed(2) /\ Succeeded(3)

(***************************************************************************)
(* C5. For every configured base delay d >= 0, d = 0 included, the sleep   *)
(* after the failed attempt of index a that is retried lasts d * 2^a, and  *)
(* there is no sleep after a failure that is not retried.                  *)
(* Fails on the code for d = 0: the delay is 1000 * 2^a (0 || 1000).       *)
(***************************************************************************)
C5_BackoffIsExponential ==
    (Constructed /\ ConfiguredRetryDelay >= 0) =>
        /\ \A p \in Positions("sleep") :
              trace[p].arg = ConfiguredRetryDelay * Pow2(trace[p].idx)
        /\ \A k \in 1 .. NumAttempts :
              (\E p \in Positions("sleep") : trace[p].idx = k - 1)
                  <=> (Failed(k) /\ (k < NumAttempts \/ pc = "sleeping"))

ClaimedRetryable(e) ==
    /\ e # NullError
    /\ LET st == FirstTruthy(e.status, e.statusCode, e.respStatus)
       IN  \/ (st # None /\ (st[1] = 429 \/ (st[1] >= 500 /\ st[1] <= 599)))
           \/ e.code \in {Some("ECONNRESET"), Some("ETIMEDOUT"), Some("ENOTFOUND")}

(***************************************************************************)
(* C6. isRetryableError(e) is true exactly when e carries status 429 or a  *)
(* status in 500..599, or a network code among ECONNRESET, ETIMEDOUT,      *)
(* ENOTFOUND, for every combination of the fields; null and TimeoutError   *)
(* are not retryable.                                                      *)
(* Fails on the code: a truthy status decides alone, the code is not read. *)
(***************************************************************************)
C6_ClassificationIsDisjunction ==
    clsResult # None => clsResult[1] = ClaimedRetryable(clsError)

\* the guard of every attempt holds what the winner of its race produced, and what
\* the caller and the response hooks get comes from a guard whose work won
C7_GuardFollowsTheWinner ==
    Constructed =>
        /\ \A k \in 1 .. NumAttempts :
              LET r == attempts[k]
              IN  /\ r.timer = "armed" => (r.guard.state = "pending" /\ r.work = "running")
                  /\ r.timer = "cleared" =>
                        r.guard = [state |-> r.work, value |-> r.workValue]
                  /\ r.timer = "fired" =>
                        r.guard = [state |-> "rejected",
                                   value |-> TimeoutError(config.provider)]
        \* what the caller and the response hooks get is the value of a guard whose
        \* work won the race
        /\ (outcome.kind = "returned" \/ Positions("response") # {}) =>
              /\ NumAttempts >= 1
              /\ attempts[NumAttempts].timer = "cleared"
              /\ Succeeded(NumAttempts)
              /\ outcome = Returned(Decorate(config, attempts[NumAttempts].workValue))
              /\ \A p \in Positions("response") :
                    trace[p].arg = attempts[NumAttempts].workValue

\* a settled guard never changes, whatever settles later
C7_GuardSettlesOnce ==
    [][\A k \in 1 .. Len(attempts) :
          attempts[k].guard.state # "pending" => attempts'[k].guard = attempts[k].guard]_vars

(***************************************************************************)
(* C7. The timeout guard settles exactly once, with whichever of the work  *)
(* and the deadline completes first: the work's own result or error when   *)
(* the work settles first; a TimeoutError carrying the configured provider *)
(* when the deadline elapses first, after which a completion of the        *)
(* abandoned work changes nothing and reaches neither the caller nor the   *)
(* response hooks.                                                         *)
(***************************************************************************)
C7_TimeoutGuard == []C7_GuardFollowsTheWinner /\ C7_GuardSettlesOnce

\* the deadline won and the abandoned provider call completed afterwards with a result
C7_Witness ==
    /\ NumAttempts >= 1
    /\ attempts[NumAttempts].timer = "fired"
    /\ attempts[NumAttempts].work = "resolved"
    /\ pc = "thrown"

DispatchesTo(ev, i) == {p \in Positions(ev) : trace[p].idx = i}

(***************************************************************************)
(* C8. When the first provider attempt succeeds within the timeout window, *)
(* every registered request hook is dispatched exactly once, every         *)
(* registered response hook exactly once, all request dispatches precede   *)
(* all response dispatches, and no error hook is dispatched.               *)
(***************************************************************************)
C8_HooksOnFirstAttemptSuccess ==
    (Constructed /\ NumAttempts >= 1 /\ Succeeded(1)) =>
        /\ \A i \in 1 .. Len(requestHooks) : Cardinality(DispatchesTo("request", i)) = 1
        /\ \A i \in 1 .. Len(responseHooks) : Cardinality(DispatchesTo("response", i)) = 1
        /\ Cardinality(Positions("request")) = Len(requestHooks)
        /\ Cardinality(Positions("response")) = Len(responseHooks)
        /\ \A p \in Positions("request") : \A q \in Positions("response") : p < q
        /\ Positions("error") = {}

C8_Witness ==
    /\ pc = "returned"
    /\ NumAttempts = 1
    /\ Len(requestHooks) = 1
    /\ Len(responseHooks) = 1

AttemptPos(a) == CHOOSE p \in Positions("attempt") : trace[p].idx = a

\* the part of the trace that belongs to attempt a (0-based)
Segment(a) ==
    (AttemptPos(a) + 1) .. (IF a + 1 < NumAttempts THEN AttemptPos(a + 1) - 1
                            ELSE Len(trace))

(***************************************************************************)
(* C9. Every registered error hook is invoked exactly once per failed      *)
(* attempt, with that attempt's error: for the attempts retried            *)
(* afterwards, for the non-retryable one and for the one that exhausts the *)
(* retries; the dispatches per error hook number the failed attempts.      *)
(***************************************************************************)
C9_ErrorHooksOncePerFailedAttempt ==
    Constructed =>
        /\ \A k \in 1 .. NumAttempts :
              LET errs == {p \in Segment(k - 1) : trace[p].ev = "error"}
              IN  IF Failed(k)
                  THEN /\ \A i \in 1 .. Len(errorHooks) :
                            Cardinality({p \in errs : trace[p].idx = i}) = 1
                       /\ Cardinality(errs) = Len(errorHooks)
                       /\ \A p \in errs : trace[p].arg = FailureOf(k)
                  ELSE errs = {}
        /\ \A i \in 1 .. Len(errorHooks) :
              Cardinality(DispatchesTo("error", i)) = NumFailed
        /\ Cardinality(Positions("error")) = Len(errorHooks) * NumFailed

\* a retried failure followed by a non-retryable one, with two error hooks
C9_Witness ==
    /\ pc = "thrown"
    /\ Len(errorHooks) = 2
    /\ NumAttempts = 2
    /\ NumFailed = 2
    /\ outcome = Thrown(lastError)

\* the same registry with hooks that do not throw
Quiet(hooks) == [i \in 1 .. Len(hooks) |-> [throws |-> FALSE]]

LastN(sq, n) == SubSeq(sq, Len(sq) - n + 1, Len(sq))

(***************************************************************************)
(* C10. A request, response or error hook that throws does not stop the    *)
(* dispatch to the hooks registered after it and does not change the       *)
(* call's outcome: the same attempts are made and the same result is       *)
(* returned, or the same error raised, as if the hook had not thrown.      *)
(***************************************************************************)
C10_HookFailuresAreIsolated ==
    (Constructed /\ pc # "idle") =>
        /\ SubSeq(trace, 1, Len(requestHooks))
              = [i \in 1 .. Len(requestHooks) |-> Event("request", i, config)]
        /\ EffMaxRetries(config) >= 0 =>
              /\ NumAttempts >= 1
              /\ trace[Len(requestHooks) + 1] = Event("attempt", 0, None)
        /\ (pc \in {"sleeping", "returned", "thrown"} /\ NumAttempts >= 1) =>
              LET ref == AfterGuard(config, Quiet(responseHooks), Quiet(errorHooks),
                                    attempt, attempts[NumAttempts].guard)
              IN  /\ pc = ref.pc
                  /\ outcome = ref.outcome
                  /\ Len(trace) >= Len(ref.events)
                  /\ LastN(trace, Len(ref.events)) = ref.events

\* a throwing error hook registered before another one, and the call retries
C10_Witness ==
    /\ pc = "sleeping"
    /\ errorHooks = <<[throws |-> TRUE], [throws |-> FALSE]>>
    /\ Cardinality(Positions("error")) = 2

HookKinds == {"request", "response", "error"}

\* the registry a kind of hook is kept in
HooksOf(kind) ==
    IF kind = "request" THEN requestHooks
    ELSE IF kind = "response" THEN responseHooks
    ELSE errorHooks

\* new is old, or old with one hook pushed at its end
Pushed(old, new) ==
    \/ new = old
    \/ /\ Len(new) = Len(old) + 1
       /\ SubSeq(new, 1, Len(old)) = old

\* an invocation of the hook at position i > 1 of its registry comes right after
\* the invocation of the hook at position i - 1, in the same pass (same argument)
InvocationsFollowPositions ==
    \A p \in 1 .. Len(trace) :
        trace[p].ev \in HookKinds =>
            /\ trace[p].idx \in 1 .. Len(HooksOf(trace[p].ev))
            /\ \/ trace[p].idx = 1
               \/ /\ p > 1
                  /\ trace[p - 1] = [trace[p] EXCEPT !.idx = @ - 1]

\* a registration puts the hook behind the ones registered before it
PositionsFollowRegistration ==
    /\ Pushed(requestHooks, requestHooks')
    /\ Pushed(responseHooks, responseHooks')
    /\ Pushed(errorHooks, errorHooks')

(***************************************************************************)
(* C11: the hooks of one kind are invoked in the order in which they were  *)
(* registered, one after the other: a registration appends to the          *)
(* registry, and a dispatch invokes the registry's hooks from the first to *)
(* the last, each invocation complete before the next.                     *)
(***************************************************************************)
C11_HooksRunInRegistrationOrder ==
    /\ []InvocationsFollowPositions
    /\ [][PositionsFollowRegistration]_vars

\* two different error hooks, registered one after the other, both invoked on
\* a failed attempt
C11_Witness ==
    /\ Len(errorHooks) = 2
    /\ errorHooks[1] # errorHooks[2]
    /\ \E p \in 1 .. Len(trace) - 1 :
           /\ trace[p].ev = "error" /\ trace[p].idx = 1
           /\ trace[p + 1].ev = "error" /\ trace[p + 1].idx = 2

\* what the claim calls a configuration the constructor must refuse
Refused(c) == c.apiKey = "" \/ ~(c.provider = "openai" \/ c.provider = "gemini")

\* new AIClient(c) raises AIClientError for a refused c and leaves no provider
\* object; it succeeds for every other c
ConstructorRefuses ==
    \A c \in ConfigInputs :
        Construct(c) =>
            IF Refused(c)
            THEN /\ pc' = "ctorFailed"
                 /\ outcome'.kind = "thrown"
                 /\ outcome'.value.name = "AIClientError"
                 /\ providerObj' = NoProvider
            ELSE /\ pc' = "idle"
                 /\ providerObj' # NoProvider

\* no client exists after a failed construction: no provider object, no hook
\* dispatched, no provider call
NothingAfterFailedConstruction ==
    pc = "ctorFailed" =>
        /\ outcome.kind = "thrown"
        /\ outcome.value.name = "AIClientError"
        /\ providerObj = NoProvider
        /\ config = NoConfig
        /\ attempts = <<>>
        /\ trace = <<>>

(***************************************************************************)
(* C12: constructing a client with an empty API key or with a provider     *)
(* other than openai / gemini fails in the constructor with AIClientError; *)
(* no provider object is created, and no step (so no provider call) is     *)
(* ever taken from the failed construction.                                *)
(***************************************************************************)
C12_ConstructorValidates ==
    /\ [][ConstructorRefuses]_vars
    /\ []NothingAfterFailedConstruction
    /\ [][pc # "ctorFailed"]_vars

\* a key is given but the provider is not one of the two supported
C12_Witness ==
    /\ pc = "ctorFailed"
    /\ outcome = Thrown(AIClientError("Unsupported provider"))

\* the caller left the field unset: no key, or a key whose value is undefined
Unset(field) == field = Omitted \/ field = Undefined

\* the value the claim expects calls to use for a field whose default is d
Expected(field, d) == IF Unset(field) THEN d ELSE field.v

\* the constructor accepted fnInput and produced a configuration
ConfigBuilt == fnOutput # None /\ fnOutput[1].kind = "returned"

(***************************************************************************)
(* C13: for each of temperature, maxRetries, retryDelay and timeout, the   *)
(* value calls use after construction is the default (0.7, 3, 1000, 30000) *)
(* when the caller left the field unset (omitted or undefined), and the    *)
(* caller's value when one was set.                                        *)
(***************************************************************************)
C13_DefaultsFillUnsetFields ==
    ConfigBuilt =>
        LET cfg == fnOutput[1].value
        IN  /\ EffTemperature(cfg) = Val(Expected(fnInput.temperature, 7))
            /\ EffMaxRetries(cfg) = Expected(fnInput.maxRetries, 3)
            /\ EffRetryDelay(cfg) = Expected(fnInput.retryDelay, 1000)
            /\ EffTimeout(cfg) = Expected(fnInput.timeout, 30000)

\* client.chatStream was consumed (its first next() was requested)
StreamConsumed == pc \in {"streaming", "streamDone", "streamFailed"}

\* the provider implements no streaming of its own
NoStreamingCapability == providerObj.chatStream \in {"absent", "inherited"}

(***************************************************************************)
(* C14: when the provider implements no streaming (chatStream missing, or  *)
(* the one inherited from BaseProvider), consuming client.chatStream fails *)
(* with the streaming-unsupported error, and no request hook, no error     *)
(* hook and no provider call precede the failure.                          *)
(***************************************************************************)
C14_UnsupportedStreamingFailsFirst ==
    (StreamConsumed /\ NoStreamingCapability) =>
        /\ pc = "streamFailed"
        /\ outcome = Thrown(StreamingUnsupported(config.provider))
        /\ trace = <<>>
        /\ delivered = <<>>

(***************************************************************************)
(* C15: when the provider's stream ends without error, the chunks the      *)
(* caller consumed from client.chatStream are exactly the chunks the       *)
(* provider yielded: same number, same order, content and done flag of     *)
(* each unchanged.                                                         *)
(***************************************************************************)
C15_ChunksForwardedUnchanged ==
    pc = "streamDone" =>
        /\ source.tag = "ended"
        /\ Len(delivered) = Len(source.yielded)
        /\ \A i \in 1 .. Len(delivered) :
               /\ delivered[i].content = source.yielded[i].content
               /\ delivered[i].done = source.yielded[i].done

\* three chunks, the last one flagged done, then the end of the stream
C15_Witness ==
    /\ pc = "streamDone"
    /\ Len(source.yielded) = 3
    /\ Len(delivered) = 3
    /\ ~delivered[1].done /\ ~delivered[2].done /\ delivered[3].done
    /\ delivered[1].content # delivered[2].content

\* the provider's stream raised an error
StreamRaised == StreamConsumed /\ source.tag = "failed"

\* after the stream's error: every error hook was invoked once with the error,
\* the caller got AIClientError with provider tag and cause, and holds the
\* chunks yielded before the error
StreamErrorReported ==
    StreamRaised =>
        /\ pc = "streamFailed"
        /\ outcome.kind = "thrown"
        /\ outcome.value.name = "AIClientError"
        /\ outcome.value.provider = Some(config.provider)
        /\ outcome.value.originalError = Some(source.error)
        /\ \A i \in 1 .. Len(errorHooks) :
               Cardinality({p \in Positions("error") :
                              trace[p] = Event("error", i, source.error)}) = 1
        /\ Cardinality(Positions("error")) = Len(errorHooks)
        /\ delivered = source.yielded

(***************************************************************************)
(* C16: when the provider's stream raises an error during the iteration,   *)
(* each registered error hook is invoked exactly once with that error,     *)
(* the iteration then fails with an AIClientError carrying the configured  *)
(* provider name and the original error as cause, and no chunk is          *)
(* delivered after the error.                                              *)
(***************************************************************************)
C16_StreamErrorHandling ==
    /\ []StreamErrorReported
    /\ [][pc = "streamFailed" => delivered' = delivered]_vars

\* the stream fails after a first chunk, with two error hooks registered, the
\* first of which throws
C16_Witness ==
    /\ StreamRaised
    /\ providerObj.chatStream = "own"
    /\ Len(source.yielded) >= 1
    /\ Len(errorHooks) = 2
    /\ errorHooks[1].throws

\* the raw result the provider returned in the attempt that succeeded
RawResult == attempts[Len(attempts)].guard.value

\* the provider reported a model name
ReportsModel(result) == result.model # None /\ result.model # Some("")

(***************************************************************************)
(* C17: the result a successful non-streaming call returns has the         *)
(* client's configured provider as its provider tag, whatever tag the raw  *)
(* result had; its model is the one the provider reported or, when none    *)
(* was reported, the client's effective model; content, token usage and    *)
(* finish reason are those of the raw result.                              *)
(***************************************************************************)
C17_ResultDecoration ==
    pc = "returned" =>
        /\ outcome.kind = "returned"
        /\ outcome.value.provider = Some(config.provider)
        /\ outcome.value.model = IF ReportsModel(RawResult) THEN RawResult.model
                                 ELSE Some(config.model)
        /\ outcome.value.model # Some("")
        /\ outcome.value.content = RawResult.content
        /\ outcome.value.tokensUsed = RawResult.tokensUsed
        /\ outcome.value.finishReason = RawResult.finishReason

\* the raw result carried a provider tag of its own, different from the
\* client's, and a model name
C17_Witness ==
    /\ pc = "returned"
    /\ RawResult.provider # None
    /\ RawResult.provider # Some(config.provider)
    /\ ReportsModel(RawResult)

\* the raw result named no model
C17_WitnessNoModel ==
    /\ pc = "returned"
    /\ ~ReportsModel(RawResult)
    /\ outcome.value.model = Some(config.model)

\* the call is over and its last provider attempt failed
LastAttemptFailed ==
    /\ NumAttempts >= 1
    /\ Failed(NumAttempts)
    /\ pc \notin {"inflight", "sleeping"}

(***************************************************************************)
(* C18: a non-streaming call whose last attempt failed returns no result   *)
(* and dispatches no response hook; the caller gets a raised error, which  *)
(* is the attempt's own error (the provider's, or the TimeoutError of the  *)
(* guard) or a RetryError wrapping it.  Exceptions of hooks never replace  *)
(* it, and a call that returns had a successful last attempt.              *)
(***************************************************************************)
C18_FailuresReachTheCaller ==
    /\ LastAttemptFailed =>
           /\ pc = "thrown"
           /\ outcome.kind = "thrown"
           /\ outcome.value.name \in {"Error", "TimeoutError", "RetryError"}
           /\ \/ outcome.value = FailureOf(NumAttempts)
              \/ /\ outcome.value.name = "RetryError"
                 /\ outcome.value.originalError = FailureOf(NumAttempts)
           /\ Positions("response") = {}
    /\ pc = "returned" => (NumAttempts >= 1 /\ Succeeded(NumAttempts))

\* the call gave up after a retry, with a response hook registered and an
\* error hook that throws
C18_Witness ==
    /\ LastAttemptFailed
    /\ NumAttempts >= 2
    /\ Len(responseHooks) = 1
    /\ Len(errorHooks) = 1
    /\ errorHooks[1].throws

\* two numbers are the same fraction
SameNumber(x, y) == ~x.nan /\ ~y.nan /\ x.num * y.den = y.num * x.den

\* the label the claim gives a response text: its first part, trimmed and
\* lower-cased, when that is a valid label, else neutral
ClaimedLabel(content) ==
    LET first == ToLowerCase(Trim(Split(content, "|")[1]))
    IN  IF first \in {<<"positive">>, <<"neutral">>, <<"negative">>}
        THEN first ELSE <<"neutral">>

\* the score the claim gives a response text: its second part as a number
\* clamped to [0, 1], else 0.5
ClaimedScore(content) ==
    LET parts == Split(content, "|")
        x == IF Len(parts) >= 2 THEN parseFloat(Trim(parts[2])) ELSE NaN
    IN  IF x.nan THEN Number(5, 10)
        ELSE IF x.num < 0 THEN Number(0, 1)
        ELSE IF x.num > x.den THEN Number(1, 1)
        ELSE x

(***************************************************************************)
(* C19: classifySentiment splits the response text on '|'; the sentiment   *)
(* is the first part, trimmed and lower-cased, when it is one of positive, *)
(* neutral, negative, and neutral otherwise; the score is the second part  *)
(* parsed as a number and clamped to [0, 1], and 0.5 when that part is     *)
(* missing or no number.  A valid label without a score keeps the label.   *)
(***************************************************************************)
C19_SentimentParsing ==
    fnOutput # None =>
        /\ fnOutput[1].sentiment = ClaimedLabel(fnInput)
        /\ SameNumber(fnOutput[1].score, ClaimedScore(fnInput))

(***************************************************************************)
(* C20: for every response text, the sentiment classifySentiment returns   *)
(* is one of positive, neutral, negative and its score lies between 0 and  *)
(* 1, both included.                                                       *)
(***************************************************************************)
C20_SentimentAndScoreInRange ==
    fnOutput # None =>
        /\ fnOutput[1].sentiment \in {<<"positive">>, <<"neutral">>, <<"negative">>}
        /\ ~fnOutput[1].score.nan
        /\ fnOutput[1].score.den > 0
        /\ 0 <= fnOutput[1].score.num
        /\ fnOutput[1].score.num <= fnOutput[1].score.den

\* a score part above 1, clamped to 1
C20_Witness ==
    /\ fnInput = <<"positive", "|", "5">>
    /\ fnOutput = Some([sentiment |-> <<"positive">>, score |-> Number(1, 1)])

\* the bullet of a line as the claim describes it: one leading '-', '*' or
\* bullet character U+2022 and the whitespace after it are removed
ClaimedBullet(line) ==
    IF line # <<>> /\ Head(line) \in {"-", "*", "U+2022"}
    THEN TrimStart(Tail(line)) ELSE line

\* the bullets the claim gives a response text
ClaimedBullets(content) ==
    LET lines == Split(content, "\n")
        trimmed == [i \in 1 .. Len(lines) |-> Trim(lines[i])]
        kept == SelectSeq(trimmed, NonEmpty)
        stripped == [i \in 1 .. Len(kept) |-> ClaimedBullet(kept[i])]
    IN  SelectSeq(stripped, NonEmpty)

(***************************************************************************)
(* C21: summarizeToBullets splits the response text into lines, trims      *)
(* them, drops the empty ones, strips one leading bullet marker ('-', '*'  *)
(* or U+2022) with the whitespace after it, and drops the lines that       *)
(* became empty; the bullets keep the order of the lines and none is       *)
(* empty.                                                                  *)
(***************************************************************************)
C21_BulletParsing ==
    fnOutput # None =>
        /\ fnOutput[1] = ClaimedBullets(fnInput)
        /\ \A i \in 1 .. Len(fnOutput[1]) : fnOutput[1][i] # <<>>

\* one invocation of every hook of a registry, in order, with argument arg
HookEvents(kind, hooks, arg) == [i \in 1 .. Len(hooks) |-> Event(kind, i, arg)]

\* what a call does from attempt a on, as a function of the configuration,
\* the response and error hooks and the outcomes outs of the attempts
\* (outs[a + 1] is the outcome of attempt a): its events and its result
RECURSIVE RunFrom(_, _, _, _, _)
RunFrom(cfg, rHooks, eHooks, outs, a) ==
    LET o == outs[a + 1]
        start == <<Event("attempt", a, None)>>
        errors == HookEvents("error", eHooks, o.value)
        delay == (IF cfg.retryDelay.tag = "value" /\ cfg.retryDelay.v # 0
                  THEN cfg.retryDelay.v ELSE 1000) * Pow2(a)
    IN  IF o.state = "pending" THEN [events |-> start, outcome |-> NoOutcome]
        ELSE IF o.state = "resolved"
        THEN [events |-> start \o HookEvents("response", rHooks, o.value),
              outcome |-> Returned(Decorate(cfg, o.value))]
        ELSE IF a < EffMaxRetries(cfg) /\ isRetryableError(o.value)
        THEN LET sofar == start \o errors \o <<Event("sleep", a, delay)>>
             IN  IF a + 1 < Len(outs)
                 THEN LET rest == RunFrom(cfg, rHooks, eHooks, outs, a + 1)
                      IN  [events |-> sofar \o rest.events, outcome |-> rest.outcome]
                 ELSE [events |-> sofar, outcome |-> NoOutcome]
        ELSE [events |-> start \o errors,
              outcome |-> Thrown(IF a = EffMaxRetries(cfg)
                                 THEN RetryError(a, cfg.provider, o.value)
                                 ELSE o.value)]

\* the whole call as a function of its inputs
Run(cfg, qHooks, rHooks, eHooks, outs) ==
    LET requests == HookEvents("request", qHooks, cfg)
    IN  IF EffMaxRetries(cfg) < 0
        THEN [events |-> requests,
              outcome |-> Thrown(AIClientError("Failed to execute chat"))]
        ELSE IF outs = <<>> THEN [events |-> requests, outcome |-> NoOutcome]
        ELSE LET r == RunFrom(cfg, rHooks, eHooks, outs, 0)
             IN  [events |-> requests \o r.events, outcome |-> r.outcome]

\* the outcomes of the attempts of the call: how each guard settled
AttemptOutcomes == [k \in 1 .. Len(attempts) |-> attempts[k].guard]

CallIssued == pc \in {"inflight", "sleeping", "returned", "thrown"}

(***************************************************************************)
(* C22: determinism.  The result of a non-streaming call and its sequence  *)
(* of provider attempts, hook dispatches and sleeps are a function of the  *)
(* client's configuration, its registered hooks and the outcomes of the    *)
(* provider attempts: two runs that agree on these agree on the result and *)
(* on the whole sequence.                                                  *)
(***************************************************************************)
C22_Determinism ==
    CallIssued =>
        LET run == Run(config, requestHooks, responseHooks, errorHooks, AttemptOutcomes)
        IN  /\ trace = run.events
            /\ outcome = run.outcome

\* a completed call with a retry, in which a provider call abandoned by its
\* guard is still running when the caller gets the error
C22_Witness ==
    /\ pc = "thrown"
    /\ NumAttempts = 2
    /\ attempts[2].guard.value.name = "TimeoutError"
    /\ attempts[2].work = "running"
    /\ Len(errorHooks) = 1
    /\ Len(requestHooks) = 1

Set(s) == s # None /\ s # Some("")

\* the provider the environment names, if any
NamedProvider(env) == IF Set(env.AI_PROVIDER) THEN env.AI_PROVIDER ELSE env.PROVIDER

\* the environment holds the key of provider p
HasKeyOf(env, p) ==
    \/ p = "openai" /\ Set(env.OPENAI_API_KEY)
    \/ p = "gemini" /\ (Set(env.GEMINI_API_KEY) \/ Set(env.GOOGLE_AI_API_KEY))

\* the environment yields a provider and the credential of that provider: the
\* named provider with its own key or, when none is named, any key
YieldsProviderAndKey(env) ==
    IF Set(NamedProvider(env))
    THEN HasKeyOf(env, NamedProvider(env)[1])
    ELSE HasKeyOf(env, "openai") \/ HasKeyOf(env, "gemini")

(***************************************************************************)
(* C23: AIClient.fromEnv raises AIClientError and creates no client        *)
(* whenever the environment does not yield both a provider and that        *)
(* provider's key (nothing set, or a provider named without its own key,   *)
(* whatever other key is set); the error is fromEnv's own, raised after    *)
(* the loader returned.  An environment that yields both gives a client.   *)
(***************************************************************************)
C23_FromEnvValidates ==
    fnOutput # None =>
        IF YieldsProviderAndKey(fnInput)
        THEN /\ fnOutput[1].kind = "returned"
             /\ pc = "idle"
        ELSE /\ fnOutput[1].kind = "thrown"
             /\ fnOutput[1].value.name = "AIClientError"
             /\ fnOutput[1].value.message = "Missing required environment variables"
             /\ pc = "ctorFailed"
             /\ config = NoConfig
             /\ providerObj = NoProvider

\* openai is named, its key is not set, a gemini key is
C23_Witness ==
    /\ fnOutput # None
    /\ fnInput.AI_PROVIDER = Some("openai")
    /\ fnInput.OPENAI_API_KEY = None
    /\ fnInput.GEMINI_API_KEY # None
    /\ fnOutput[1].kind = "thrown"

\* attempt k (1-based) ended with the guard's timeout
TimedOut(k) == Failed(k) /\ FailureOf(k).name = "TimeoutError"

(***************************************************************************)
(* C24: an attempt that ends with a timeout is the last attempt of its     *)
(* call: the TimeoutError is not retryable, no backoff sleep follows it,   *)
(* and when retries remain the call fails with that TimeoutError itself.   *)
(***************************************************************************)
C24_TimeoutIsNotRetried ==
    \A k \in 1 .. NumAttempts :
        TimedOut(k) =>
            /\ k = NumAttempts
            /\ pc = "thrown"
            /\ ~isRetryableError(FailureOf(k))
            /\ \A p \in Positions("sleep") : trace[p].idx # k - 1
            /\ k - 1 < EffMaxRetries(config) =>
                  outcome = Thrown(TimeoutError(config.provider))

\* the second attempt of a call with retries left times out
C24_Witness ==
    /\ NumAttempts = 2
    /\ TimedOut(2)
    /\ EffMaxRetries(config) = 3
    /\ outcome = Thrown(TimeoutError(config.provider))

\* the timeout the caller configured, in milliseconds
ConfiguredTimeout ==
    IF config.timeout.tag = "value" THEN config.timeout.v ELSE 30000

\* an attempt that was timed out had been running for the whole timeout
FullWindow ==
    \A k \in 1 .. Len(clock.settledAt) :
        attempts[k].timer = "fired" =>
            clock.settledAt[k] - clock.armedAt[k] >= ConfiguredTimeout

\* an attempt starts when the attempt before it has settled and the sleep
\* after it is over
StartsAfterTheSleep ==
    \A k \in 2 .. Len(clock.armedAt) :
        clock.armedAt[k] >= clock.settledAt[k - 1] + ConfiguredRetryDelay * Pow2(k - 2)

\* no timer of an earlier attempt is still armed
EarlierTimersDisarmed ==
    \A k \in 1 .. NumAttempts - 1 : attempts[k].timer # "armed"

(***************************************************************************)
(* C25: every attempt has its own full timeout window, counted from the    *)
(* start of that attempt: an attempt is timed out only after it ran for    *)
(* the configured timeout, whatever time earlier attempts and sleeps took, *)
(* and the timer of an earlier attempt is never armed during a later one.  *)
(***************************************************************************)
C25_FreshTimeoutWindow ==
    Constructed => (FullWindow /\ StartsAfterTheSleep /\ EarlierTimersDisarmed)

\* the second attempt is timed out after its own window, the call being
\* older than a window by then
C25_Witness ==
    /\ NumAttempts = 2
    /\ attempts[2].timer = "fired"
    /\ clock.settledAt[2] = clock.armedAt[2] + ConfiguredTimeout
    /\ clock.armedAt[2] >= clock.armedAt[1] + ConfiguredTimeout

\* the attempts whose provider invocation has not settled
InFlight == {k \in 1 .. NumAttempts : attempts[k].work = "running"}

\* every attempt but the last has settled, its guard and its provider work
EarlierAttemptsSettled ==
    \A k \in 1 .. NumAttempts - 1 :
        /\ attempts[k].guard.state # "pending"
        /\ attempts[k].work # "running"

\* a retry is started by the end of the sleep that follows the failed attempt
RetryFollowsItsSleep ==
    \A p \in Positions("attempt") :
        trace[p].idx > 0 =>
            /\ p > 1
            /\ trace[p - 1].ev = "sleep"
            /\ trace[p - 1].idx = trace[p].idx - 1

(***************************************************************************)
(* C26: the retries of a call are sequential: an attempt starts only when  *)
(* the attempt before it has settled and the sleep after it has elapsed,   *)
(* so at most one provider invocation of the call is unsettled at any      *)
(* time, the work a timeout abandoned included.                            *)
(***************************************************************************)
C26_RetriesAreSequential ==
    /\ Cardinality(InFlight) <= 1
    /\ EarlierAttemptsSettled
    /\ RetryFollowsItsSleep

\* a third attempt is running, the two before it have failed and settled
C26_Witness ==
    /\ NumAttempts = 3
    /\ InFlight = {3}
    /\ attempts[1].work = "rejected"
    /\ attempts[2].work = "rejected"

\* the arguments the response hooks were invoked with
ResponseHookArgs == {trace[p].arg : p \in Positions("response")}

(***************************************************************************)
(* C27: the result each response hook is invoked with is the decorated     *)
(* result: its provider tag is the client's configured provider, it names  *)
(* a model, and it equals the result the call returns.                     *)
(* Fails on the code: the hooks are invoked with the provider's raw        *)
(* result, the decoration is built afterwards in the return statement.     *)
(***************************************************************************)
C27_HooksGetDecoratedResult ==
    \A r \in ResponseHookArgs :
        /\ r.provider = Some(config.provider)
        /\ ReportsModel(r)
        /\ pc = "returned" => r = outcome.value

\* what the code does: the hooks get the raw result of the last attempt
C27_HooksGetRawResult ==
    \A r \in ResponseHookArgs : r = RawResult

\* the caller named a model
NamesModel(c) == c.model.tag = "value" /\ c.model.v # ""

(***************************************************************************)
(* C28: after a successful construction the client's model is not empty:   *)
(* it is the model the caller gave when that is a non-empty name, and      *)
(* otherwise (no model, undefined, or the empty string) the default of the *)
(* provider, gpt-4o-mini for openai and gemini-pro for gemini.             *)
(***************************************************************************)
C28_EffectiveModelNonEmpty ==
    (pc = "idle" /\ fnOutput # None) =>
        /\ config.model # ""
        /\ NamesModel(fnInput) => config.model = fnInput.model.v
        /\ (~NamesModel(fnInput) /\ fnInput.provider = "openai") =>
              config.model = "gpt-4o-mini"
        /\ (~NamesModel(fnInput) /\ fnInput.provider = "gemini") =>
              config.model = "gemini-pro"

\* a gemini client constructed with the empty string as its model
C28_Witness ==
    /\ pc = "idle"
    /\ fnOutput # None
    /\ fnInput.provider = "gemini"
    /\ fnInput.model = Val("")
    /\ config.model = "gemini-pro"

\* the error of a thrown outcome is a RetryError
ThrewRetryError == outcome.kind = "thrown" /\ outcome.value.name = "RetryError"

(***************************************************************************)
(* C29: for every configuration the constructor accepts, the maximum retry *)
(* count of the retry loop is not negative, so every non-streaming call    *)
(* makes at least one provider attempt and every RetryError carries a      *)
(* retry count of 0 or more.                                               *)
(* Fails on the code: the constructor accepts a negative maxRetries and    *)
(* the loop uses it (-1 || 3 is -1), so its body never runs.               *)
(***************************************************************************)
C29_RetryCountNeverNegative ==
    Constructed =>
        /\ EffMaxRetries(config) >= 0
        /\ pc # "idle" => NumAttempts >= 1
        /\ ThrewRetryError => outcome.value.retries >= 0

\* what holds for negative counts too: a RetryError never carries one
C29_RetryErrorCountNotNegative ==
    ThrewRetryError => outcome.value.retries >= 0

\* the consumer has started to iterate client.chatStream(...)
StreamStarted == pc \in {"streaming", "streamDone", "streamFailed"}

\* the iteration passed the check that the provider can stream
StreamReachedProvider == StreamStarted /\ providerObj.chatStream # "absent"

\* every registered request hook was invoked once, before provider.chatStream
RequestHooksOnceBeforeOpen ==
    /\ \A i \in 1 .. Len(requestHooks) : Cardinality(DispatchesTo("request", i)) = 1
    /\ Cardinality(Positions("request")) = Len(requestHooks)
    /\ \A p \in Positions("request") : \A q \in Positions("open") : p < q

\* nothing of the retry loop and of the timeout guard has happened
NoRetryNoTimeout ==
    /\ Positions("sleep") = {}
    /\ Positions("attempt") = {}
    /\ Positions("response") = {}
    /\ attempts = <<>>
    /\ outcome.kind = "thrown" => outcome.value.name \notin {"RetryError", "TimeoutError"}

(***************************************************************************)
(* C30: a streaming call runs without the retry loop and the timeout       *)
(* guard.  Once the iteration has reached the provider, every request hook *)
(* has been dispatched exactly once and before the provider's chatStream   *)
(* was invoked, chatStream has been invoked exactly once whatever error    *)
(* the stream raised (a retryable one too), no chunk is delivered before   *)
(* it, no backoff sleep and no attempt of the retry loop happen, and no    *)
(* response hook is dispatched.  An iteration refused because the provider *)
(* cannot stream invokes nothing.                                          *)
(***************************************************************************)
C30_StreamingBypassesRetry ==
    /\ StreamStarted => NoRetryNoTimeout
    /\ StreamReachedProvider =>
          /\ Cardinality(Positions("open")) = 1
          /\ RequestHooksOnceBeforeOpen
    /\ (StreamStarted /\ ~StreamReachedProvider) =>
          /\ trace = <<>>
          /\ delivered = <<>>
    /\ delivered # <<>> => Positions("open") # {}

\* a stream that delivered a chunk fails with a retryable error; a request
\* hook and an error hook are registered
C30_Witness ==
    /\ pc = "streamFailed"
    /\ source.tag = "failed"
    /\ isRetryableError(source.error)
    /\ Len(source.yielded) >= 1
    /\ Len(requestHooks) = 1
    /\ Len(errorHooks) = 1
    /\ Cardinality(Positions("open")) = 1

\* the positions of the delivered chunks that signal completion
DonePositions == {i \in 1 .. Len(delivered) : delivered[i].done}

(***************************************************************************)
(* C31: the chunk sequence the caller gets ends when a chunk signals       *)
(* completion or when the provider's sequence ends: no chunk is delivered  *)
(* after a chunk with done = true, and a sequence that ended delivered     *)
(* what the provider yielded.                                              *)
(* Fails on the code: the generator yields every chunk of the provider's   *)
(* sequence and never reads chunk.done.                                    *)
(***************************************************************************)
C31_StreamEndsAtDone ==
    /\ \A i \in DonePositions : i = Len(delivered)
    /\ pc = "streamDone" => delivered = source.yielded

\* what the code does: the sequence ends only when the provider's does, and
\* every chunk the provider yielded so far has been delivered
C31_StreamEndsWithTheProvider ==
    StreamStarted =>
        /\ providerObj.chatStream = "own" => delivered = source.yielded
        /\ pc = "streamDone" => source.tag = "ended"

\* how the guards of the attempts of call i settled
OutcomesOf(i) == [k \in 1 .. Len(calls[i].attempts) |-> calls[i].attempts[k].guard]

\* call i alone: what a call with these attempt outcomes does on this client
Alone(i) == Run(config, requestHooks, responseHooks, errorHooks, OutcomesOf(i))

(***************************************************************************)
(* C32: calls issued side by side on one client are independent.  Under    *)
(* every interleaving the attempts of a call, the delays of its sleeps,    *)
(* its hook dispatches and its outcome are those of a call that runs alone *)
(* on the client with the same outcomes of its own provider attempts: a    *)
(* failure or a timeout of another call takes none of its retries, does    *)
(* not fail it and does not delay it.                                      *)
(***************************************************************************)
C32_ConcurrentCallsIndependent ==
    \A i \in 1 .. Len(calls) :
        /\ calls[i].trace = Alone(i).events
        /\ calls[i].outcome = Alone(i).outcome
        /\ Len(calls[i].attempts) <= EffMaxRetries(config) + 1

\* the first call has used up its retries and failed, one of its attempts by a
\* timeout; the second call, issued before that, succeeds on its first retry
C32_Witness ==
    /\ Len(calls) = 2
    /\ calls[1].pc = "thrown"
    /\ calls[1].outcome.value.name = "RetryError"
    /\ calls[1].attempts[Len(calls[1].attempts)].timer = "fired"
    /\ calls[2].pc = "returned"
    /\ Len(calls[2].attempts) = 2
    /\ Len(calls[1].attempts) = 3

\* every request hook was dispatched once, and before every provider attempt
RequestHooksOncePerCall ==
    /\ \A i \in 1 .. Len(requestHooks) : Cardinality(DispatchesTo("request", i)) = 1
    /\ Cardinality(Positions("request")) = Len(requestHooks)
    /\ \A p \in Positions("request") : \A q \in Positions("attempt") : p < q

\* response hooks are dispatched only for a call whose last attempt succeeded,
\* once each, after the start of that attempt and after every error dispatch
ResponseHooksAtMostOnce ==
    /\ \A i \in 1 .. Len(responseHooks) :
          Cardinality(DispatchesTo("response", i)) = IF pc = "returned" THEN 1 ELSE 0
    /\ Cardinality(Positions("response")) <= Len(responseHooks)
    /\ Positions("response") # {} => Succeeded(NumAttempts)
    /\ \A p \in Positions("response") :
          \A q \in Positions("error") \cup Positions("attempt") \cup Positions("sleep") :
              q < p

(***************************************************************************)
(* C33: in a non-streaming call every request hook is dispatched exactly   *)
(* once, before the first provider attempt, and not again for a retry,     *)
(* however many attempts the call makes; every response hook is dispatched *)
(* at most once, only after the successful attempt and after all error     *)
(* hook dispatches of the call.                                            *)
(***************************************************************************)
C33_HooksOncePerCall ==
    CallIssued => (RequestHooksOncePerCall /\ ResponseHooksAtMostOnce)

\* a call that succeeds on its second retry, with a request hook and a
\* response hook registered
C33_Witness ==
    /\ pc = "returned"
    /\ NumAttempts = 3
    /\ Len(requestHooks) = 1
    /\ Len(responseHooks) = 1
    /\ Cardinality(Positions("request")) = 1
    /\ Cardinality(Positions("response")) = 1

\* a call that succeeds on its first retry, with an error hook and a response
\* hook registered: the response dispatch follows the error dispatch
C33_WitnessAfterErrorHooks ==
    /\ pc = "returned"
    /\ NumAttempts = 2
    /\ Positions("error") # {}
    /\ Positions("response") # {}

\* new is old with one hook appended at its end
AppendedOne(old, new) == \E h \in Hooks : new = Append(old, h)

\* a registration: one hook appended to one registry, the two others and the
\* configuration as they were
Registration ==
    \/ AppendedOne(requestHooks, requestHooks')
          /\ UNCHANGED <<responseHooks, errorHooks, config>>
    \/ AppendedOne(responseHooks, responseHooks')
          /\ UNCHANGED <<requestHooks, errorHooks, config>>
    \/ AppendedOne(errorHooks, errorHooks')
          /\ UNCHANGED <<requestHooks, responseHooks, config>>

\* a step of a call, non-streaming or streaming
CallStep ==
    \/ pc' # pc
    \/ trace' # trace
    \/ attempts' # attempts
    \/ outcome' # outcome
    \/ source' # source
    \/ delivered' # delivered

(***************************************************************************)
(* C34: the three hook registries are append-only and independent.  A step *)
(* that changes a registry appends exactly one hook at the end of one      *)
(* registry and leaves the two others and the configuration unchanged, and *)
(* is no step of a call; no step of a call, streaming or not, successful   *)
(* or failed, changes a registry or the configuration of the constructed   *)
(* client.                                                                 *)
(***************************************************************************)
C34_RegistriesAppendOnly ==
    [][/\ UNCHANGED <<requestHooks, responseHooks, errorHooks>> \/ Registration
       /\ Registration => ~CallStep
       /\ (Constructed /\ CallStep) =>
              UNCHANGED <<requestHooks, responseHooks, errorHooks, config>>
       /\ Constructed => config' = config]_vars

\* a call that failed after a retry on a client with two different error hooks
C34_Witness ==
    /\ pc = "thrown"
    /\ NumAttempts >= 2
    /\ Len(errorHooks) = 2
    /\ errorHooks[1] # errorHooks[2]
    /\ Cardinality(Positions("error")) = 4

\* a stream that failed on a client with a request hook and an error hook
C34_WitnessStream ==
    /\ pc = "streamFailed"
    /\ Len(requestHooks) = 1
    /\ Len(errorHooks) = 1
    /\ Positions("error") # {}

\* the call is under way: an attempt is running or the loop sleeps
CallUnderWay == pc \in {"inflight", "sleeping"}

\* the caller has got a result or an error
CallSettled == pc \in {"returned", "thrown"} /\ outcome # NoOutcome

\* the attempts and the sleeps are bounded by the retry count of the loop
AttemptsBounded ==
    Constructed =>
        /\ NumAttempts <= (IF EffMaxRetries(config) < 0 THEN 0 ELSE EffMaxRetries(config) + 1)
        /\ Cardinality(Positions("sleep")) <= NumAttempts

(***************************************************************************)
(* C35: every non-streaming call eventually settles, with a result or an   *)
(* error, also when a provider attempt never settles: provided that armed  *)
(* timers fire and sleeps end, a call that is under way leads to a settled *)
(* call, and its attempts and sleeps are bounded by the retry count.       *)
(***************************************************************************)
C35_CallEventuallySettles ==
    /\ []AttemptsBounded
    /\ CallUnderWay ~> CallSettled

\* the provider call of the only attempt never settled: the timer ended the call
C35_Witness ==
    /\ pc = "thrown"
    /\ NumAttempts = 1
    /\ attempts[1].work = "running"
    /\ attempts[1].timer = "fired"
    /\ outcome = Thrown(TimeoutError(config.provider))

\* the finish reason of the i-th chunk of the backend's stream
BackendFinishReason(i) ==
    LET chunk == fnInput.chunks[i]
    IN  IF fnInput.provider = "openai"
        THEN (IF Len(chunk.choices) = 0 THEN Undefined ELSE chunk.choices[1].finish_reason)
        ELSE (IF chunk.candidates.tag # "value" THEN Undefined
              ELSE IF Len(chunk.candidates.v) = 0 THEN Undefined
              ELSE chunk.candidates.v[1].finishReason)

\* the i-th backend chunk carries a finish reason
CarriesFinishReason(i) == BackendFinishReason(i).tag = "value"

(***************************************************************************)
(* C36: a chunk of the OpenAI or the Gemini provider's chatStream has      *)
(* done = true only if the backend chunk it was built from carries a       *)
(* finish reason; a backend chunk whose finish reason is absent (null,     *)
(* undefined, or no choice / candidate at all) gives done = false.         *)
(* Fails on the code: the test is `!== null`, and undefined !== null.      *)
(***************************************************************************)
C36_DoneOnlyWithFinishReason ==
    \A i \in 1 .. Len(fnOutput) : fnOutput[i].done => CarriesFinishReason(i)

\* what the code does: done is false exactly for a finish reason that is null
C36_DoneUnlessNull ==
    \A i \in 1 .. Len(fnOutput) : fnOutput[i].done = (BackendFinishReason(i) # JsNull)

\* the claim for the chunks whose finish reason is set or is null
C36_DoneWhenNotUndefined ==
    \A i \in 1 .. Len(fnOutput) :
        BackendFinishReason(i) # Undefined =>
            fnOutput[i].done = CarriesFinishReason(i)
====
